---- MODULE Spec2Model ----
(***************************************************************************)
(* A model of the preference-learning engine of the AI music studio        *)
(* (src/hooks/useLearningSystem.ts): the learning state held by the React  *)
(* hook, the record it keeps in localStorage, and the handlers that change *)
(* them.                                                                   *)
(*                                                                         *)
(* Keyword weights are JavaScript numbers.  The model keeps them as the    *)
(* exact IEEE-754 binary64 values the code computes: a number x is the     *)
(* record [neg, hi, lo] with |x| * 2^57 = hi * Limb + lo, and fadd rounds  *)
(* a sum to 53 significant bits, ties to even, as the + of the language    *)
(* does.  Every weight, delta and sum of the handlers is a multiple of     *)
(* 2^-57 below 4, so the representation is exact for them.                 *)
(***************************************************************************)
EXTENDS Integers, Sequences, FiniteSets, TLC

VARIABLES
    state,      \* the hook's LearningSystemState (useState)
    storage,    \* what localStorage holds under STORAGE_KEY
    error,      \* "none", or the error a state updater threw while rendering
    last        \* the handler that ran last, with its arguments

vars == <<state, storage, error, last>>

\* ------------------------------------------------------------------------
\* Bounds of the model
\* ------------------------------------------------------------------------

\* the feedback handlers are called while sampleCount is below this
MaxSampleCount == 3

\* the same in the runs on a single description, which take a weight from
\* the floor to the ceiling
MaxDeepSampleCount == 10

\* the longest batch handed to handleBulkFeedback
MaxBulk == 2

\* ------------------------------------------------------------------------
\* binary64 arithmetic on the values the handlers produce
\* ------------------------------------------------------------------------

Limb == 2^29

Num(neg, hi, lo) == [neg |-> neg, hi |-> hi, lo |-> lo]

Zero == Num(FALSE, 0, 0)

IsZero(x) == x.hi = 0 /\ x.lo = 0

\* the doubles nearest to 0.1 and equal to 1.0
Tenth == Num(FALSE, 26843545, 322122548)
One == Num(FALSE, 2^28, 0)

Neg(x) == IF IsZero(x) THEN x ELSE [x EXCEPT !.neg = ~x.neg]

\* |x| < |y|
MagLess(x, y) == x.hi < y.hi \/ (x.hi = y.hi /\ x.lo < y.lo)

\* x < y
Less(x, y) ==
    IF x.neg /\ ~y.neg THEN ~(IsZero(x) /\ IsZero(y))
    ELSE IF ~x.neg /\ y.neg THEN FALSE
    ELSE IF x.neg THEN MagLess(y, x)
    ELSE MagLess(x, y)

\* the spacing of doubles at a magnitude whose high limb is hi, in units of
\* 2^-57: 2^-52 from 1.0 on, halving with each binade below, and 1 below
\* 2^-4, where every multiple of 2^-57 is a double
Ulp(hi) ==
    IF hi >= 2^29 THEN 64
    ELSE IF hi >= 2^28 THEN 32
    ELSE IF hi >= 2^27 THEN 16
    ELSE IF hi >= 2^26 THEN 8
    ELSE IF hi >= 2^25 THEN 4
    ELSE IF hi >= 2^24 THEN 2
    ELSE 1

\* round the exact magnitude hi * Limb + lo to the nearest double, ties to
\* the even significand
Round(neg, hi, lo) ==
    LET u == Ulp(hi)
        r == lo % u
        down == lo - r
        up == 2 * r > u \/ (2 * r = u /\ (down \div u) % 2 = 1)
        rounded == IF up THEN down + u ELSE down
    IN  IF rounded = Limb THEN Num(neg, hi + 1, 0) ELSE Num(neg, hi, rounded)

\* x + y of two doubles
fadd(x, y) ==
    IF x.neg = y.neg
    THEN LET lo == x.lo + y.lo
         IN  Round(x.neg, x.hi + y.hi + (lo \div Limb), lo % Limb)
    ELSE LET big == IF MagLess(x, y) THEN y ELSE x
             small == IF MagLess(x, y) THEN x ELSE y
             lo == big.lo - small.lo
             hi == big.hi - small.hi
         IN  IF hi = 0 /\ lo = 0 THEN Zero
             ELSE IF lo < 0 THEN Round(big.neg, hi - 1, lo + Limb)
             ELSE Round(big.neg, hi, lo)

\* x / 2 of a double with an even last limb, which is exact
Half(x) == Num(x.neg, x.hi \div 2, ((x.hi % 2) * Limb + x.lo) \div 2)

\* a faulty clamp, the ceiling left out: Math.max(0.1, x)
ClampFloorOnly(x) == IF Less(x, Tenth) THEN Tenth ELSE x

\* Math.max(0.1, Math.min(1.0, x))
Clamp(x) ==
    LET m == IF Less(One, x) THEN One ELSE x
    IN  IF Less(m, Tenth) THEN Tenth ELSE m


\* ------------------------------------------------------------------------
\* The keyword dictionary and the matching of a keyword against a text
\* ------------------------------------------------------------------------

\* enum MusicalDimension, in declaration order (the key order of KEYWORD_MAP)
MusicalDimension ==
    <<"style", "mood", "key", "instrument", "humanization", "pattern",
      "harmonic_complexity", "melodic_development", "dynamic_expression",
      "voice_leading">>

Dimensions == {MusicalDimension[i] : i \in 1..Len(MusicalDimension)}

\* enum FeedbackAction
LIKE == "like"
DISLIKE == "dislike"
REGENERATE == "regenerate"
DOWNLOAD == "download"
FeedbackAction == {LIKE, DISLIKE, REGENERATE, DOWNLOAD}

KEYWORD_MAP == [
    style |->
        <<"jazz", "classical", "rock", "blues", "electronic", "folk", "pop",
          "ambient", "hip-hop", "country", "funk", "soul", "reggae">>,
    mood |->
        <<"happy", "sad", "melancholic", "energetic", "calm", "dramatic",
          "mysterious", "romantic", "aggressive", "peaceful", "upbeat",
          "funky", "dark", "light">>,
    key |->
        <<"c major", "g major", "d major", "a major", "e major", "f major",
          "c minor", "g minor", "d minor", "a minor", "e minor", "f minor">>,
    instrument |->
        <<"piano", "guitar", "drums", "bass", "violin", "saxophone",
          "trumpet", "flute", "synthesizer", "organ", "synth", "cello",
          "clarinet", "trombone", "marimba", "harp", "electric guitar",
          "acoustic guitar", "rhodes", "pads", "lead">>,
    humanization |->
        <<"swing", "groove", "humanized", "natural feel",
          "velocity variance", "timing imperfection", "dynamic range",
          "rubato", "expressive", "phrasing", "articulation", "laid-back",
          "behind the beat", "unquantized", "tight", "quantized", "rushed">>,
    pattern |->
        <<"complex rhythm", "simple rhythm", "melodic", "arpeggiated",
          "dense texture", "sparse texture", "repetitive", "syncopated",
          "call and response", "chord", "progression", "four-on-the-floor",
          "off-beats", "bassline riff">>,
    harmonic_complexity |->
        <<"simple", "complex", "sophisticated", "extended chords",
          "altered chords", "secondary dominants", "modal interchange",
          "chromatic", "diatonic", "functional harmony", "voice leading",
          "counterpoint">>,
    melodic_development |->
        <<"motivic", "thematic", "development", "variation",
          "transformation", "sequence", "imitation", "fugue", "canon",
          "improvisational", "linear", "contour", "shape">>,
    dynamic_expression |->
        <<"expressive", "dynamic", "phrasing", "crescendo", "diminuendo",
          "accent", "emphasis", "articulation", "legato", "staccato",
          "tenuto", "fermata">>,
    voice_leading |->
        <<"smooth", "contrary motion", "oblique motion", "parallel motion",
          "voice leading", "counterpoint", "polyphony", "homophony",
          "chordal", "linear">>
]

Char(s, i) == SubSeq(s, i, i)

CharsOf(s) == {Char(s, i) : i \in 1..Len(s)}

UpperCase == "ABCDEFGHIJKLMNOPQRSTUVWXYZ"
LowerCase == "abcdefghijklmnopqrstuvwxyz"

\* \w of a JavaScript regular expression
WordChars == CharsOf(UpperCase) \cup CharsOf(LowerCase) \cup CharsOf("0123456789_")

\* \s of a JavaScript regular expression, for the characters of the texts
SpaceChars == {" ", "\t", "\n", "\r", "\f"}

LowerChar(c) ==
    IF c \in CharsOf(UpperCase)
    THEN Char(LowerCase, CHOOSE i \in 1..Len(UpperCase) : Char(UpperCase, i) = c)
    ELSE c

RECURSIVE LowerFrom(_, _)
LowerFrom(s, i) ==
    IF i > Len(s) THEN "" ELSE LowerChar(Char(s, i)) \o LowerFrom(s, i + 1)

\* String.prototype.toLowerCase
toLowerCase(s) == LowerFrom(s, 1)

IsWordAt(text, p) == p >= 1 /\ p <= Len(text) /\ Char(text, p) \in WordChars

\* a faulty boundary, every position taken as one: the keyword is looked for
\* as a substring
EveryPosition(text, p) == TRUE

\* \b between the characters p - 1 and p of text
WordBoundary(text, p) == IsWordAt(text, p - 1) # IsWordAt(text, p)

\* the rest of the pattern, from character j of the keyword on, matches text
\* from position i: a blank of the keyword stands for \s+, every other
\* character for itself, and the pattern ends with \b
RECURSIVE MatchAt(_, _, _, _)
MatchAt(keyword, j, text, i) ==
    IF j > Len(keyword) THEN WordBoundary(text, i)
    ELSE IF Char(keyword, j) = " "
    THEN \E n \in 1..(Len(text) - i + 1) :
            /\ \A q \in i..(i + n - 1) : Char(text, q) \in SpaceChars
            /\ MatchAt(keyword, j + 1, text, i + n)
    ELSE /\ i <= Len(text)
         /\ Char(text, i) = Char(keyword, j)
         /\ MatchAt(keyword, j + 1, text, i + 1)

\* new RegExp(`\\b${keyword.replace(/ /g, '\\s+')}\\b`).test(text)
keywordRegexTest(keyword, text) ==
    \E i \in 1..(Len(text) + 1) :
        WordBoundary(text, i) /\ MatchAt(keyword, 1, text, i)

\* descriptions and snippet texts: one that matches no keyword, one with the
\* same keyword twice and in capitals, one with keywords of three dimensions
\* ("expressive" is a keyword of humanization and of dynamic_expression,
\* "chord" one of pattern)
Descriptions == {"classic", "Jazz jazz", "expressive chord"}

\* the single descriptions of the runs that take a weight to the ceiling: a
\* keyword of style, and one of humanization
JazzDescription == "Jazz jazz"
SwingDescription == "swing"

\* texts that put a phrase between two neighbours: the phrase is a keyword
\* (as the dictionary has it, in capitals, or with more whitespace between
\* its words) or a part or a respelling of one; a neighbour is nothing, a
\* letter, an underscore, a hyphen, a letter outside ASCII or a blank
Phrases ==
    {"jazz", "JaZZ", "classical", "classic", "four-on-the-floor", "four-on-the",
     "four on the floor", "c major", "C \t\n major", "cmajor"}

Neighbours == {"", "s", "_", "-", "é", " "}

MatchCases ==
    {[before |-> b, phrase |-> phrase, after |-> ""] :
        b \in Neighbours, phrase \in Phrases}
    \cup {[before |-> "", phrase |-> phrase, after |-> a] :
        a \in Neighbours, phrase \in Phrases}
    \cup {[before |-> "s", phrase |-> phrase, after |-> "-"] : phrase \in Phrases}
    \cup {[before |-> "é", phrase |-> phrase, after |-> "_"] : phrase \in Phrases}

TextOf(case) == case.before \o case.phrase \o case.after

MatchTexts == {TextOf(case) : case \in MatchCases}

\* the place of the last "." of name at or before i, 0 when there is none
RECURSIVE LastDot(_, _)
LastDot(name, i) ==
    IF i = 0 THEN 0
    ELSE IF Char(name, i) = "." THEN i
    ELSE LastDot(name, i - 1)

\* file.name.split('.').slice(0, -1).join('.')
nameWithoutExt(name) == SubSeq(name, 1, LastDot(name, Len(name)) - 1)

\* nameWithoutExt.replace(/[_-]/g, ' ')
RECURSIVE cleanedName(_)
cleanedName(text) ==
    IF text = "" THEN ""
    ELSE (IF Char(text, 1) \in {"_", "-"} THEN " " ELSE Char(text, 1))
         \o cleanedName(SubSeq(text, 2, Len(text)))

ImportTypes == {"chords", "melodies", "humanization"}

\* the description handleImport makes of a file of a type
DescriptionOf(name, type) ==
    cleanedName(nameWithoutExt(name))
    \o (IF type = "chords" THEN " chord progression pattern"
        ELSE IF type = "melodies" THEN " melodic pattern"
        ELSE " humanized natural feel performance")

\* the names of the files of a bulk import
FileNames == {"swing_jazz.v2.mid", "take-1"}

ImportDescriptions ==
    {DescriptionOf(name, type) : name \in FileNames, type \in ImportTypes}

\* the descriptions of the feedback of the engine and of the bulk imports
AllDescriptions ==
    Descriptions \cup {JazzDescription, SwingDescription} \cup ImportDescriptions

\* the keywords of one dimension that match a description, in dictionary order
ScanDimension(dimension, description) ==
    LET lowercasedDescription == toLowerCase(description)
        hits == SelectSeq(KEYWORD_MAP[dimension],
                          LAMBDA keyword : keywordRegexTest(keyword, lowercasedDescription))
    IN  [i \in 1..Len(hits) |-> [dimension |-> dimension, keyword |-> hits[i]]]

\* the scan of every description of the model, made once
ScanTable == [dimension \in Dimensions, description \in AllDescriptions |->
                ScanDimension(dimension, description)]

\* the scan of the texts of MatchTexts, made once
TextScanTable == [dimension \in Dimensions, description \in MatchTexts |->
                    ScanDimension(dimension, description)]

MatchedIn(dimension, description) ==
    IF description \in AllDescriptions THEN ScanTable[dimension, description]
    ELSE TextScanTable[dimension, description]

RECURSIVE MatchedFrom(_, _)
MatchedFrom(d, description) ==
    IF d > Len(MusicalDimension) THEN <<>>
    ELSE MatchedIn(MusicalDimension[d], description) \o MatchedFrom(d + 1, description)

\* every (dimension, keyword) of the dictionary that matches a description,
\* in the order Object.entries(KEYWORD_MAP) and the keyword lists give
MatchTable == [description \in AllDescriptions |-> MatchedFrom(1, description)]

TextMatchTable == [description \in MatchTexts |-> MatchedFrom(1, description)]

Matched(description) ==
    IF description \in AllDescriptions THEN MatchTable[description]
    ELSE TextMatchTable[description]

\* the batches handed to handleBulkFeedback: of a text that matches nothing
\* and of one that matches three keywords
BatchDescriptions == {"classic", "expressive chord"}

Batches == UNION {[1..n -> BatchDescriptions] : n \in 0..MaxBulk}

BatchesOf(description) == UNION {[1..n -> {description}] : n \in 0..MaxBulk}

\* ------------------------------------------------------------------------
\* The learning state
\* ------------------------------------------------------------------------

LEARNING_RATE == Tenth

MAX_CONFIDENCE_SAMPLES == 50

Min(a, b) == IF a < b THEN a ELSE b

\* A PreferenceWeights object is the sequence of its entries [key, weight] in
\* insertion order, the order Object.entries gives.  A LearnedPreferences
\* object is a function on the dimensions it has as keys.

HasKey(weights, keyword) == \E i \in 1..Len(weights) : weights[i].key = keyword

Lookup(weights, keyword) ==
    weights[CHOOSE i \in 1..Len(weights) : weights[i].key = keyword].weight

\* weights[keyword] || 0.1
WeightOrFloor(weights, keyword) ==
    IF HasKey(weights, keyword) /\ ~IsZero(Lookup(weights, keyword))
    THEN Lookup(weights, keyword)
    ELSE Tenth

\* weights[keyword] = weight
SetKey(weights, keyword, weight) ==
    IF HasKey(weights, keyword)
    THEN [i \in 1..Len(weights) |->
            IF weights[i].key = keyword
            THEN [key |-> keyword, weight |-> weight]
            ELSE weights[i]]
    ELSE Append(weights, [key |-> keyword, weight |-> weight])

\* { ...preferences[dimension] }
CopyOfDimension(preferences, dimension) ==
    IF dimension \in DOMAIN preferences THEN preferences[dimension] ELSE <<>>

\* preferences[dimension] = weights
SetDimension(preferences, dimension, weights) ==
    [d \in DOMAIN preferences \cup {dimension} |->
        IF d = dimension THEN weights ELSE preferences[d]]

\* { ...s, field: value }
With(s, field, value) ==
    [f \in DOMAIN s \cup {field} |-> IF f = field THEN value ELSE s[f]]

INITIAL_PREFERENCES == [d \in Dimensions |-> <<>>]

\* Math.min(100, (sampleCount / MAX_CONFIDENCE_SAMPLES) * 100), a percentage;
\* the quotient is taken exactly
Confidence(sampleCount) ==
    Min(100, (sampleCount * 100) \div MAX_CONFIDENCE_SAMPLES)

\* the record the persisting effect writes
stateToStore(s) ==
    [isEnabled |-> s.isEnabled, preferences |-> s.preferences,
     sampleCount |-> s.sampleCount]

\* localStorage.getItem of a key that was never set
Null == [null |-> TRUE]

FreshState ==
    [isEnabled |-> FALSE, preferences |-> INITIAL_PREFERENCES,
     sampleCount |-> 0, confidence |-> 0]

\* the dimensions getInitialState adds to a stored preferences object
MigratedDimensions == {"humanization", "pattern"}

getInitialState(stored) ==
    IF stored # Null /\ "preferences" \in DOMAIN stored /\ "sampleCount" \in DOMAIN stored
    THEN LET preferences ==
                [d \in DOMAIN stored.preferences \cup MigratedDimensions |->
                    IF d \in DOMAIN stored.preferences
                    THEN stored.preferences[d] ELSE <<>>]
             parsed == With(stored, "preferences", preferences)
         IN  With(parsed, "confidence", Confidence(parsed.sampleCount))
    ELSE FreshState

toggleLearning(s) == With(s, "isEnabled", ~s.isEnabled)

\* a faulty reset, the learned weights kept
resetLearningKeepsPreferences(s, confirmed) ==
    IF confirmed
    THEN [isEnabled |-> s.isEnabled, preferences |-> s.preferences,
          sampleCount |-> 0, confidence |-> 0]
    ELSE s

resetLearning(s, confirmed) ==
    IF confirmed
    THEN [isEnabled |-> s.isEnabled, preferences |-> INITIAL_PREFERENCES,
          sampleCount |-> 0, confidence |-> 0]
    ELSE s

\* a faulty adjustment, DOWNLOAD not taken as a LIKE
AdjustedLikeOnly(currentWeight, action) ==
    IF action = LIKE THEN fadd(currentWeight, LEARNING_RATE)
    ELSE IF action = DISLIKE THEN fadd(currentWeight, Neg(LEARNING_RATE))
    ELSE IF action = REGENERATE THEN fadd(currentWeight, Neg(Half(LEARNING_RATE)))
    ELSE currentWeight

\* the weight a feedback action moves a weight to, before clamping
Adjusted(currentWeight, action) ==
    IF action = LIKE \/ action = DOWNLOAD THEN fadd(currentWeight, LEARNING_RATE)
    ELSE IF action = DISLIKE THEN fadd(currentWeight, Neg(LEARNING_RATE))
    ELSE IF action = REGENERATE THEN fadd(currentWeight, Neg(Half(LEARNING_RATE)))
    ELSE currentWeight

\* the state updater of updatePreferences
updatePreferences(s, dimension, keyword, action) ==
    LET weights == CopyOfDimension(s.preferences, dimension)
        currentWeight == WeightOrFloor(weights, keyword)
        newWeight == Adjusted(currentWeight, action)
        newPrefs == SetDimension(s.preferences, dimension,
                                 SetKey(weights, keyword, Clamp(newWeight)))
        newSampleCount == s.sampleCount + 1
    IN  With(With(With(s, "preferences", newPrefs),
                  "sampleCount", newSampleCount),
             "confidence", Confidence(newSampleCount))

\* the updaters one handler queued, applied in the order they were queued
RECURSIVE ApplyUpdates(_, _, _)
ApplyUpdates(s, hits, action) ==
    IF hits = <<>> THEN s
    ELSE ApplyUpdates(
            updatePreferences(s, Head(hits).dimension, Head(hits).keyword, action),
            Tail(hits), action)

\* a faulty handler, the isEnabled test left out
handleFeedbackAlways(s, description, action) ==
    ApplyUpdates(s, Matched(description), action)

handleFeedback(s, description, action) ==
    IF ~s.isEnabled THEN s
    ELSE ApplyUpdates(s, Matched(description), action)

\* the delta handleBulkFeedback adds for one matching text
BulkDelta(action) ==
    IF action = LIKE \/ action = DOWNLOAD THEN LEARNING_RATE
    ELSE IF action = DISLIKE THEN Neg(LEARNING_RATE)
    ELSE IF action = REGENERATE THEN Half(Neg(LEARNING_RATE))
    ELSE Zero

\* a faulty accumulation, = delta in place of += delta
AddAdjustmentOverwrite(adjustments, hit, delta) ==
    IF \E i \in 1..Len(adjustments) :
            adjustments[i].dimension = hit.dimension /\ adjustments[i].keyword = hit.keyword
    THEN [i \in 1..Len(adjustments) |->
            IF adjustments[i].dimension = hit.dimension /\ adjustments[i].keyword = hit.keyword
            THEN [adjustments[i] EXCEPT !.delta = delta]
            ELSE adjustments[i]]
    ELSE Append(adjustments,
                [dimension |-> hit.dimension, keyword |-> hit.keyword,
                 delta |-> delta])

\* weightAdjustments[dimension][keyword] += delta, the entry starting at 0;
\* the adjustments are kept as entries [dimension, keyword, delta] in the order
\* of their first match
AddAdjustment(adjustments, hit, delta) ==
    IF \E i \in 1..Len(adjustments) :
            adjustments[i].dimension = hit.dimension /\ adjustments[i].keyword = hit.keyword
    THEN [i \in 1..Len(adjustments) |->
            IF adjustments[i].dimension = hit.dimension /\ adjustments[i].keyword = hit.keyword
            THEN [adjustments[i] EXCEPT !.delta = fadd(@, delta)]
            ELSE adjustments[i]]
    ELSE Append(adjustments,
                [dimension |-> hit.dimension, keyword |-> hit.keyword,
                 delta |-> fadd(Zero, delta)])

RECURSIVE AddHits(_, _, _)
AddHits(adjustments, hits, delta) ==
    IF hits = <<>> THEN adjustments
    ELSE AddHits(AddAdjustment(adjustments, Head(hits), delta), Tail(hits), delta)

\* weightAdjustments after descriptions[n..] were scanned
RECURSIVE ScanDescriptions(_, _, _, _)
ScanDescriptions(adjustments, descriptions, n, action) ==
    IF n > Len(descriptions) THEN adjustments
    ELSE ScanDescriptions(
            AddHits(adjustments, Matched(descriptions[n]), BulkDelta(action)),
            descriptions, n + 1, action)

\* the scan of every batch of the model, made once
AdjustmentTable ==
    [descriptions \in Batches \cup BatchesOf(JazzDescription)
                            \cup BatchesOf(SwingDescription),
     action \in FeedbackAction |->
        ScanDescriptions(<<>>, descriptions, 1, action)]

\* the batches of the table
TableBatches ==
    Batches \cup BatchesOf(JazzDescription) \cup BatchesOf(SwingDescription)

weightAdjustments(descriptions, action) ==
    IF descriptions \in TableBatches THEN AdjustmentTable[descriptions, action]
    ELSE ScanDescriptions(<<>>, descriptions, 1, action)

\* a faulty bulk update, the summed delta applied in two clamped steps as two
\* single updates would
BulkNewWeightStepwise(currentWeight, delta) ==
    Clamp(fadd(Clamp(fadd(currentWeight, Half(delta))), Half(delta)))

\* the new weight of one adjusted keyword
BulkNewWeight(currentWeight, delta) == Clamp(fadd(currentWeight, delta))

\* the loops of the updater of handleBulkFeedback over weightAdjustments
RECURSIVE ApplyAdjustments(_, _)
ApplyAdjustments(newPrefs, adjustments) ==
    IF adjustments = <<>> THEN newPrefs
    ELSE LET a == Head(adjustments)
             currentWeights == newPrefs[a.dimension]
             currentWeight == WeightOrFloor(currentWeights, a.keyword)
         IN  ApplyAdjustments(
                [newPrefs EXCEPT ![a.dimension] =
                    SetKey(currentWeights, a.keyword,
                           BulkNewWeight(currentWeight, a.delta))],
                Tail(adjustments))

\* the updater of handleBulkFeedback reads currentWeights[keyword] of a
\* dimension newPrefs does not have: a TypeError
BulkThrows(s, descriptions, action) ==
    /\ s.isEnabled
    /\ Len(descriptions) # 0
    /\ LET adjustments == weightAdjustments(descriptions, action)
       IN  \E i \in 1..Len(adjustments) :
                adjustments[i].dimension \notin DOMAIN s.preferences

\* the updater handleBulkFeedback hands to setState, applied to the state s
\* current when React runs it
BulkUpdater(s, descriptions, action) ==
    LET newPrefs ==
            ApplyAdjustments(s.preferences, weightAdjustments(descriptions, action))
        newSampleCount == s.sampleCount + Len(descriptions)
    IN  With(With(With(s, "preferences", newPrefs),
                  "sampleCount", newSampleCount),
             "confidence", Confidence(newSampleCount))

\* handleBulkFeedback as one render made it, called when the state is s: the
\* test reads the isEnabled of the state of that render (the callback is
\* memoized on [state.isEnabled]), the updater gets the current state
handleBulkFeedbackOfRender(isEnabled, s, descriptions, action) ==
    IF ~isEnabled \/ Len(descriptions) = 0 THEN s
    ELSE BulkUpdater(s, descriptions, action)

\* the handler of the latest render, called on the state of that render
handleBulkFeedback(s, descriptions, action) ==
    handleBulkFeedbackOfRender(s.isEnabled, s, descriptions, action)

\* a faulty snippet learner, both texts scanned in every dimension
learnFromSnippetAnalysisAllDimensions(s, analysis) ==
    IF ~s.isEnabled THEN s
    ELSE ApplyUpdates(s,
            Matched(analysis.humanization) \o Matched(analysis.pattern),
            LIKE)

learnFromSnippetAnalysis(s, analysis) ==
    IF ~s.isEnabled THEN s
    ELSE ApplyUpdates(s,
            MatchedIn("humanization", analysis.humanization)
                \o MatchedIn("pattern", analysis.pattern),
            LIKE)

\* importData and loadDataFromFile: the state the file puts in place
importData(s, file) ==
    IF "learningSystem" \in DOMAIN file THEN file.learningSystem ELSE s

\* ------------------------------------------------------------------------
\* What localStorage and a backup file may hold
\* ------------------------------------------------------------------------

\* 0.2, the double of 0.1 + 0.1
OneFifth == Num(FALSE, 53687091, 107374184)

\* the doubles 0.30000000000000004, 0.5 and 0.8
ThreeTenths == Num(FALSE, 80530636, 429496736)
OneHalf == Num(FALSE, 2^27, 0)
FourFifths == Num(FALSE, 214748364, 429496736)

\* the record the six-dimension version of the hook (src/unnamed/part_011)
\* stored after two likes of a jazz description
SixDimensionItem ==
    [isEnabled |-> TRUE,
     preferences |->
        [d \in {"style", "mood", "key", "instrument", "humanization", "pattern"} |->
            IF d = "style" THEN <<[key |-> "jazz", weight |-> ThreeTenths]>> ELSE <<>>],
     sampleCount |-> 2]

\* oldState of the migration test (useLearningSystem.test.ts)
TestOldState ==
    [isEnabled |-> TRUE,
     preferences |->
        [d \in {"style", "mood"} |->
            IF d = "style" THEN <<[key |-> "jazz", weight |-> OneHalf]>>
            ELSE <<[key |-> "happy", weight |-> FourFifths]>>],
     sampleCount |-> 10]

\* what localStorage may hold when the hook mounts in a fresh page
StoredItems == {Null, SixDimensionItem, TestOldState}

\* the learning state exportData wrote after two likes of a jazz description
ExportedState ==
    [isEnabled |-> TRUE,
     preferences |->
        [d \in Dimensions |->
            IF d = "style" THEN <<[key |-> "jazz", weight |-> ThreeTenths]>> ELSE <<>>],
     sampleCount |-> 2,
     confidence |-> 4]

\* backup files: one exportData wrote, one whose learningSystem is the record
\* in the persisted layout (no confidence), one without learningSystem
ImportFiles ==
    {[learningSystem |-> ExportedState],
     [learningSystem |-> stateToStore(ExportedState)],
     [sessionLibrary |-> <<>>]}

\* ------------------------------------------------------------------------
\* The state machine
\* ------------------------------------------------------------------------

\* the hook mounts: useState(getInitialState), then the persisting effect
Mounted(stored) ==
    /\ state = getInitialState(stored)
    /\ storage = stateToStore(state)
    /\ error = "none"
    /\ last = [op |-> "mount", stored |-> stored]

Init == \E stored \in StoredItems : Mounted(stored)

\* no error was thrown and the effects of the last render have run
Idle ==
    /\ error = "none"
    /\ storage = stateToStore(state)

\* a handler's new state is committed and the persisting effect runs
Commit(new, call) ==
    /\ state' = new
    /\ storage' = stateToStore(new)
    /\ last' = call
    /\ UNCHANGED error

ToggleLearning ==
    /\ Idle
    /\ Commit(toggleLearning(state), [op |-> "toggleLearning"])

ResetLearning ==
    /\ Idle
    /\ \E confirmed \in BOOLEAN :
        Commit(resetLearning(state, confirmed),
               [op |-> "resetLearning", confirmed |-> confirmed])

FeedbackOn(texts, max) ==
    /\ Idle
    /\ \E description \in texts, action \in FeedbackAction :
        /\ state.sampleCount < max
        /\ Commit(handleFeedback(state, description, action),
                  [op |-> "handleFeedback",
                   description |-> description, action |-> action])

BulkFeedbackOn(batches, max) ==
    /\ Idle
    /\ \E descriptions \in batches, action \in FeedbackAction :
        LET call == [op |-> "handleBulkFeedback",
                     descriptions |-> descriptions, action |-> action]
        IN  /\ state.sampleCount < max
            /\ IF BulkThrows(state, descriptions, action)
               THEN /\ error' = "TypeError"
                    /\ last' = call
                    /\ UNCHANGED <<state, storage>>
               ELSE Commit(handleBulkFeedback(state, descriptions, action), call)

SnippetAnalysisOn(texts, max) ==
    /\ Idle
    /\ \E humanization \in texts, pattern \in texts :
        LET analysis == [humanization |-> humanization, pattern |-> pattern]
        IN  /\ state.sampleCount < max
            /\ Commit(learnFromSnippetAnalysis(state, analysis),
                      [op |-> "learnFromSnippetAnalysis", analysis |-> analysis])

HandleFeedback == FeedbackOn(Descriptions, MaxSampleCount)

HandleBulkFeedback == BulkFeedbackOn(Batches, MaxSampleCount)

LearnFromSnippetAnalysis == SnippetAnalysisOn(Descriptions, MaxSampleCount)

\* importData and loadDataFromFile: setState(importedData.learningSystem) and
\* localStorage.setItem of the same object as the file has it; a file without
\* learningSystem makes the handler throw to its caller, nothing changed
ImportWith(op) ==
    /\ Idle
    /\ \E file \in ImportFiles :
        /\ state' = importData(state, file)
        /\ storage' = IF "learningSystem" \in DOMAIN file
                      THEN file.learningSystem ELSE storage
        /\ last' = [op |-> op, file |-> file]
        /\ UNCHANGED error

ImportData == ImportWith("importData")

LoadDataFromFile == ImportWith("loadDataFromFile")

\* the persisting effect runs after the render that follows an import
PersistEffect ==
    /\ error = "none"
    /\ storage # stateToStore(state)
    /\ storage' = stateToStore(state)
    /\ UNCHANGED <<state, error, last>>

\* the page is loaded again: the hook mounts on what localStorage holds
Mount ==
    /\ state' = getInitialState(storage)
    /\ storage' = stateToStore(state')
    /\ error' = "none"
    /\ last' = [op |-> "mount", stored |-> storage]

Next ==
    \/ ToggleLearning
    \/ ResetLearning
    \/ HandleFeedback
    \/ HandleBulkFeedback
    \/ LearnFromSnippetAnalysis
    \/ ImportData
    \/ LoadDataFromFile
    \/ PersistEffect
    \/ Mount

Spec == Init /\ [][Next]_vars

\* the engine alone, from the empty state of a first run
EngineInit == Mounted(Null)

EngineNext ==
    \/ ToggleLearning
    \/ ResetLearning
    \/ HandleFeedback
    \/ HandleBulkFeedback
    \/ LearnFromSnippetAnalysis

EngineSpec == EngineInit /\ [][EngineNext]_vars

\* the engine alone on the texts of MatchTexts
MaxMatchSamples == 1

MatchFeedback == FeedbackOn(MatchTexts, MaxMatchSamples)

MatchNext ==
    \/ ToggleLearning
    \/ ResetLearning
    \/ MatchFeedback

MatchSpec == EngineInit /\ [][MatchNext]_vars

\* the engine alone on descriptions of jazz, until the weight of jazz has
\* reached 1.0
JazzFeedback == FeedbackOn({JazzDescription}, MaxDeepSampleCount)

JazzBulkFeedback == BulkFeedbackOn(BatchesOf(JazzDescription), MaxDeepSampleCount)

JazzNext ==
    \/ ToggleLearning
    \/ ResetLearning
    \/ JazzFeedback
    \/ JazzBulkFeedback

JazzSpec == EngineInit /\ [][JazzNext]_vars

\* the engine alone on descriptions and snippets of swing, until the weight of
\* swing has reached 1.0
SwingFeedback == FeedbackOn({SwingDescription}, MaxDeepSampleCount)

SwingBulkFeedback == BulkFeedbackOn(BatchesOf(SwingDescription), MaxDeepSampleCount)

SwingSnippetAnalysis == SnippetAnalysisOn({SwingDescription}, MaxDeepSampleCount)

SwingNext ==
    \/ ToggleLearning
    \/ ResetLearning
    \/ SwingFeedback
    \/ SwingBulkFeedback
    \/ SwingSnippetAnalysis

SwingSpec == EngineInit /\ [][SwingNext]_vars

\* ------------------------------------------------------------------------
\* The top keyword of a dimension (src/services/geminiService.ts)
\* ------------------------------------------------------------------------

\* the entries a weight map may hold are at most this many
MaxEntries == 3

\* a faulty insertion, an entry put before the entries of equal weight
InsertBeforeTies(sorted, entry) ==
    LET smaller == {i \in 1..Len(sorted) : ~Less(entry.weight, sorted[i].weight)}
        at == IF smaller = {} THEN Len(sorted) + 1
              ELSE CHOOSE i \in smaller : \A j \in smaller : i <= j
    IN  SubSeq(sorted, 1, at - 1) \o <<entry>> \o SubSeq(sorted, at, Len(sorted))

\* one step of the stable sort by (a, b) => b[1] - a[1]: the entry goes
\* before the first entry of smaller weight, behind those of equal weight
InsertByWeight(sorted, entry) ==
    LET smaller == {i \in 1..Len(sorted) : Less(sorted[i].weight, entry.weight)}
        at == IF smaller = {} THEN Len(sorted) + 1
              ELSE CHOOSE i \in smaller : \A j \in smaller : i <= j
    IN  SubSeq(sorted, 1, at - 1) \o <<entry>> \o SubSeq(sorted, at, Len(sorted))

\* entries.sort((a, b) => b[1] - a[1])
RECURSIVE SortByWeight(_, _)
SortByWeight(sorted, entries) ==
    IF entries = <<>> THEN sorted
    ELSE SortByWeight(InsertByWeight(sorted, Head(entries)), Tail(entries))

getTopPreference(weights) ==
    IF Len(weights) = 0 THEN Null
    ELSE SortByWeight(<<>>, weights)[1].key

\* the weight maps of style a stored item may hold: up to MaxEntries
\* keywords in any insertion order, each at the floor, at 0.5 or at the ceiling
TopKeywords == {"jazz", "rock", "blues", "folk"}

WeightMaps ==
    UNION {{[i \in 1..n |-> [key |-> keys[i], weight |-> weights[i]]] :
                keys \in {k \in [1..n -> TopKeywords] :
                            \A i, j \in 1..n : i # j => k[i] # k[j]},
                weights \in [1..n -> {Tenth, OneHalf, One}]} :
           n \in 0..MaxEntries}

\* the hook mounts on a stored item with one of the weight maps as style
PromptInit ==
    \E weights \in WeightMaps :
        Mounted([isEnabled |-> TRUE,
                 preferences |-> [INITIAL_PREFERENCES EXCEPT !["style"] = weights],
                 sampleCount |-> Len(weights)])

\* the dimensions the prompt builder asks the top keyword of
PromptDimensions == {"style", "mood", "key", "pattern", "humanization"}

\* the prompt builder reads the top keyword of a dimension
GetTopPreference ==
    /\ Idle
    /\ \E dimension \in PromptDimensions :
        last' = [op |-> "getTopPreference", dimension |-> dimension,
                 result |-> getTopPreference(state.preferences[dimension])]
    /\ UNCHANGED <<state, storage, error>>

PromptNext == GetTopPreference \/ ToggleLearning

PromptSpec == PromptInit /\ [][PromptNext]_vars

\* ------------------------------------------------------------------------
\* The MIDI encoder (src/unnamed/part_008, the module services/midiService)
\* ------------------------------------------------------------------------

\* A MidiNote is [note, velocity, time, duration] with time and duration in
\* tenths of a second; a MidiTrack is [notes] or [trackName, notes].  With
\* times in tenths of a second and a whole bpm, time / SECONDS_PER_TICK is
\* time * bpm * 0.8 ticks, never within 0.1 of a half, so Math.round gives
\* the same tick for the quotient of doubles as for the exact quotient.

TPQN == 480

\* Math.round(n / d) for d > 0: the nearest integer, a half going up
RoundDiv(n, d) == (2 * n + d) \div (2 * d)

\* Math.round(seconds / SECONDS_PER_TICK), seconds in tenths
TickOf(tenths, bpm) == RoundDiv(tenths * bpm * TPQN, 600)

\* Math.round((note.duration - 0.5) * 15): (duration - 5) * 1.5 for a
\* duration in tenths, a half going up.  From -3 s to 10 s the doubles give
\* this number for every tenth but 0.6, 1.4, 4.6 and 8.2 s, where the
\* product falls just below the half; no duration of the model is one of
\* these.
VelocityNudge(duration) == RoundDiv(3 * duration - 15, 2)

Max(a, b) == IF a > b THEN a ELSE b

\* a faulty velocity, the duration left out
VelocityAsGiven(note) == Min(127, Max(0, note.velocity))

\* Math.min(127, Math.max(0, note.velocity + ...))
dynamicVelocity(note) ==
    Min(127, Max(0, note.velocity + VelocityNudge(note.duration)))

\* the two events pushed for each note, in the order of the notes
RECURSIVE EventsOf(_, _)
EventsOf(notes, bpm) ==
    IF notes = <<>> THEN <<>>
    ELSE LET note == Head(notes)
         IN  <<[tick |-> TickOf(note.time, bpm), type |-> "on",
                note |-> note.note, velocity |-> dynamicVelocity(note)],
               [tick |-> TickOf(note.time + note.duration, bpm), type |-> "off",
                note |-> note.note, velocity |-> 0]>>
             \o EventsOf(Tail(notes), bpm)

\* a faulty step, the event put before the events of its own tick
InsertBeforeEqualTicks(sorted, event) ==
    LET later == {i \in 1..Len(sorted) : sorted[i].tick >= event.tick}
        at == IF later = {} THEN Len(sorted) + 1
              ELSE CHOOSE i \in later : \A j \in later : i <= j
    IN  SubSeq(sorted, 1, at - 1) \o <<event>> \o SubSeq(sorted, at, Len(sorted))

\* one step of the stable sort by (a, b) => a.tick - b.tick
InsertByTick(sorted, event) ==
    LET later == {i \in 1..Len(sorted) : sorted[i].tick > event.tick}
        at == IF later = {} THEN Len(sorted) + 1
              ELSE CHOOSE i \in later : \A j \in later : i <= j
    IN  SubSeq(sorted, 1, at - 1) \o <<event>> \o SubSeq(sorted, at, Len(sorted))

\* events.sort((a, b) => a.tick - b.tick)
RECURSIVE SortByTick(_, _)
SortByTick(sorted, events) ==
    IF events = <<>> THEN sorted
    ELSE SortByTick(InsertByTick(sorted, Head(events)), Tail(events))

\* what stands for the bytes of a call that does not return: no byte and no
\* number pushed alone is -1
Diverges == <<-1>>

\* A number that may exceed 32 bits is the record [hi, lo] of its value
\* hi * 2^28 + lo.  ToInt32 is the conversion the operators & and >>= apply
\* to their left operand: the value modulo 2^32, taken in -2^31 .. 2^31 - 1.
Wide(hi, lo) == [hi |-> hi, lo |-> lo]

ToInt32(wide) ==
    LET h == wide.hi % 16
    IN  IF h >= 8 THEN (h - 16) * 2^28 + wide.lo ELSE h * 2^28 + wide.lo

\* the bytes unshifted by the loop while (value >>= 7), for value > 0
RECURSIVE ContinuationBytes(_)
ContinuationBytes(value) ==
    IF value = 0 THEN <<>>
    ELSE ContinuationBytes(value \div 128) \o <<(value % 128) + 128>>

\* writeVLQ of a value of 32 bits: value & 0x7F is pushed, then the loop
\* while (value >>= 7) unshifts (value & 0x7F) | 0x80.  >>= keeps the sign,
\* so a negative value goes to -1 and stays there: the loop never ends.
writeVLQ(value) ==
    IF value < 0 THEN Diverges
    ELSE ContinuationBytes(value \div 128) \o <<value % 128>>

\* the element of a Uint8Array made from a number
ToUint8(n) == n % 256

\* printable ASCII from the blank (32) to the underscore (95), and from
\* the letter a (97) to the tilde (126)
AsciiLow ==
    " !\"#$%&'()*+,-./0123456789:;<=>?@ABCDEFGHIJKLMNOPQRSTUVWXYZ[\\]^_"

AsciiHigh == "abcdefghijklmnopqrstuvwxyz{|}~"

\* c.charCodeAt(0)
charCodeAt(c) ==
    IF \E i \in 1..Len(AsciiLow) : Char(AsciiLow, i) = c
    THEN 31 + CHOOSE i \in 1..Len(AsciiLow) : Char(AsciiLow, i) = c
    ELSE 96 + CHOOSE i \in 1..Len(AsciiHigh) : Char(AsciiHigh, i) = c

\* text.split('').map(c => c.charCodeAt(0))
CharCodes(text) == [i \in 1..Len(text) |-> charCodeAt(Char(text, i))]

\* 0xFF, type, text.length, ...char codes
MetaText(type, text) == <<255, type, Len(text)>> \o CharCodes(text)

\* the text JSON.stringify gives for a weight
NumberToString(weight) ==
    IF weight = Tenth THEN "0.1"
    ELSE IF weight = OneFifth THEN "0.2"
    ELSE IF weight = ThreeTenths THEN "0.30000000000000004"
    ELSE IF weight = OneHalf THEN "0.5"
    ELSE IF weight = FourFifths THEN "0.8"
    ELSE "1"

\* JSON.stringify of a PreferenceWeights object
RECURSIVE JsonEntries(_)
JsonEntries(weights) ==
    IF weights = <<>> THEN ""
    ELSE "\"" \o Head(weights).key \o "\":" \o NumberToString(Head(weights).weight)
         \o (IF Len(weights) > 1 THEN "," ELSE "") \o JsonEntries(Tail(weights))

\* a faulty choice of properties, the instruments added
SideChannelWithInstrument ==
    <<"style", "mood", "key", "pattern", "humanization", "instrument">>

\* the properties of the object createTrackChunk stringifies
SideChannelDimensions == <<"style", "mood", "key", "pattern", "humanization">>

\* JSON.stringify({style: preferences.style, ...}): a property whose value is
\* undefined is left out
RECURSIVE JsonProperties(_, _, _)
JsonProperties(preferences, i, first) ==
    IF i > Len(SideChannelDimensions) THEN ""
    ELSE LET d == SideChannelDimensions[i]
         IN  IF d \in DOMAIN preferences
             THEN (IF first THEN "" ELSE ",")
                  \o "\"" \o d \o "\":{" \o JsonEntries(preferences[d]) \o "}"
                  \o JsonProperties(preferences, i + 1, FALSE)
             ELSE JsonProperties(preferences, i + 1, first)

preferenceData(preferences) == "{" \o JsonProperties(preferences, 1, TRUE) \o "}"

\* options without preferences
NoPreferences == [undefined |-> TRUE]

\* a faulty loop, lastTick never advanced: every delta counted from tick 0
RECURSIVE NoteEventBytesFromStart(_, _)
NoteEventBytesFromStart(events, lastTick) ==
    IF events = <<>> THEN <<>>
    ELSE LET event == Head(events)
             delta == writeVLQ(event.tick - lastTick)
             rest == NoteEventBytesFromStart(Tail(events), lastTick)
         IN  IF delta = Diverges \/ rest = Diverges THEN Diverges
             ELSE delta
                  \o <<IF event.type = "on" THEN 144 ELSE 128,
                       event.note, event.velocity>>
                  \o rest

\* the bytes of the note events, or Diverges
RECURSIVE NoteEventBytes(_, _)
NoteEventBytes(events, lastTick) ==
    IF events = <<>> THEN <<>>
    ELSE LET event == Head(events)
             delta == writeVLQ(event.tick - lastTick)
             rest == NoteEventBytes(Tail(events), event.tick)
         IN  IF delta = Diverges \/ rest = Diverges THEN Diverges
             ELSE delta
                  \o <<IF event.type = "on" THEN 144 ELSE 128,
                       event.note, event.velocity>>
                  \o rest

\* trackData, as pushed: numbers not yet made bytes; or Diverges
trackDataOf(track, bpm, preferences) ==
    LET events == SortByTick(<<>>, EventsOf(track.notes, bpm))
        tempo == RoundDiv(60000000, bpm)
        tempoEvent ==
            IF "trackName" \in DOMAIN track /\ track.trackName = "Tempo Track"
            THEN <<>>
            ELSE writeVLQ(0) \o <<255, 81, 3, (tempo \div 65536) % 256,
                                  (tempo \div 256) % 256, tempo % 256>>
        nameEvent ==
            IF "trackName" \in DOMAIN track /\ track.trackName # ""
            THEN writeVLQ(0) \o MetaText(3, track.trackName)
            ELSE <<>>
        textEvent ==
            IF preferences # NoPreferences
            THEN writeVLQ(0) \o MetaText(1, preferenceData(preferences))
            ELSE <<>>
        noteEvents == NoteEventBytes(events, 0)
    IN  IF noteEvents = Diverges THEN Diverges
        ELSE tempoEvent \o nameEvent \o textEvent \o noteEvents
             \o writeVLQ(0) \o <<255, 47, 0>>

\* a faulty chunk, the eight bytes of the header counted in the length
createTrackChunkCountingHeader(track, bpm, preferences) ==
    LET trackData == trackDataOf(track, bpm, preferences)
    IN  IF trackData = Diverges THEN Diverges
        ELSE LET n == Len(trackData) + 8
                 all == <<77, 84, 114, 107,
                          (n \div 16777216) % 256, (n \div 65536) % 256,
                          (n \div 256) % 256, n % 256>> \o trackData
             IN  [i \in 1..Len(all) |-> ToUint8(all[i])]

\* new Uint8Array([...mTrkHeader, ...trackData]), or Diverges
createTrackChunk(track, bpm, preferences) ==
    LET trackData == trackDataOf(track, bpm, preferences)
    IN  IF trackData = Diverges THEN Diverges
        ELSE LET n == Len(trackData)
                 all == <<77, 84, 114, 107,
                          (n \div 16777216) % 256, (n \div 65536) % 256,
                          (n \div 256) % 256, n % 256>> \o trackData
             IN  [i \in 1..Len(all) |-> ToUint8(all[i])]

\* the chunks of the tracks, in the order of the tracks
RECURSIVE trackChunks(_, _, _)
trackChunks(tracks, bpm, preferences) ==
    IF tracks = <<>> THEN <<>>
    ELSE <<createTrackChunk(Head(tracks), bpm, preferences)>>
         \o trackChunks(Tail(tracks), bpm, preferences)

\* a faulty concatenation, the last chunk first
RECURSIVE ConcatenatedBackwards(_)
ConcatenatedBackwards(chunks) ==
    IF chunks = <<>> THEN <<>>
    ELSE ConcatenatedBackwards(Tail(chunks)) \o Head(chunks)

RECURSIVE Concatenated(_)
Concatenated(chunks) ==
    IF chunks = <<>> THEN <<>> ELSE Head(chunks) \o Concatenated(Tail(chunks))

\* the bytes of the Blob createMidiBlob returns, or Diverges
createMidiBlob(tracks, bpm, preferences) ==
    LET mThd == <<77, 84, 104, 100, 0, 0, 0, 6, 0, 1,
                  (Len(tracks) \div 256) % 256, Len(tracks) % 256,
                  (TPQN \div 256) % 256, TPQN % 256>>
        chunks == trackChunks(tracks, bpm, preferences)
    IN  IF \E i \in 1..Len(chunks) : chunks[i] = Diverges THEN Diverges
        ELSE mThd \o Concatenated(chunks)

\* A standard reader of a track chunk.  It knows nothing of the encoder: a
\* quantity is a VLQ, a meta event is 0xFF, a type, the length as a VLQ and
\* that many bytes, a channel event is a status byte and its data bytes.

Fail == [fail |-> TRUE]

\* what stands for the events when the bytes are not a sequence of events
NoEvents == <<Fail>>

\* the quantity that starts at bytes[pos], and the position after it
RECURSIVE ReadVLQ(_, _, _)
ReadVLQ(bytes, pos, acc) ==
    IF pos > Len(bytes) THEN Fail
    ELSE IF bytes[pos] >= 128
         THEN ReadVLQ(bytes, pos + 1, acc * 128 + (bytes[pos] - 128))
         ELSE [value |-> acc * 128 + bytes[pos], next |-> pos + 1]

\* the events of the track data from pos on, up to the end of track that
\* closes the data; NoEvents when the data is not a sequence of events or the
\* end of track is not its last event
RECURSIVE ReadEvents(_, _)
ReadEvents(bytes, pos) ==
    LET delta == ReadVLQ(bytes, pos, 0)
    IN  IF delta = Fail THEN NoEvents
        ELSE LET p == delta.next
             IN  IF p + 1 > Len(bytes) THEN NoEvents
                 ELSE IF bytes[p] = 255
                 THEN LET length == ReadVLQ(bytes, p + 2, 0)
                      IN  IF length = Fail THEN NoEvents
                          ELSE IF length.next + length.value - 1 > Len(bytes) THEN NoEvents
                          ELSE LET event == [delta |-> delta.value, meta |-> bytes[p + 1],
                                             data |-> SubSeq(bytes, length.next,
                                                             length.next + length.value - 1)]
                               IN  IF bytes[p + 1] = 47
                                   THEN IF length.next + length.value - 1 = Len(bytes)
                                        THEN <<event>> ELSE NoEvents
                                   ELSE LET rest == ReadEvents(bytes, length.next + length.value)
                                        IN  IF rest = NoEvents THEN NoEvents ELSE <<event>> \o rest
                 ELSE IF bytes[p] \in 128..239
                 THEN LET n == IF bytes[p] \in 192..223 THEN 1 ELSE 2
                      IN  IF p + n > Len(bytes) THEN NoEvents
                          ELSE IF \E i \in 1..n : bytes[p + i] >= 128 THEN NoEvents
                          ELSE LET rest == ReadEvents(bytes, p + n + 1)
                               IN  IF rest = NoEvents THEN NoEvents
                                   ELSE <<[delta |-> delta.value, status |-> bytes[p],
                                           data |-> SubSeq(bytes, p + 1, p + n)]>> \o rest
                 ELSE NoEvents

\* the events of a chunk: "MTrk", the length of the data on four bytes, the
\* data
ReadChunk(chunk) ==
    IF Len(chunk) < 8 \/ SubSeq(chunk, 1, 4) # <<77, 84, 114, 107>> THEN NoEvents
    ELSE IF Len(chunk) - 8 # ((chunk[5] * 256 + chunk[6]) * 256 + chunk[7]) * 256 + chunk[8]
    THEN NoEvents
    ELSE ReadEvents(SubSeq(chunk, 9, Len(chunk)), 1)

\* ------------------------------------------------------------------------
\* The encoder called on bounded inputs
\* ------------------------------------------------------------------------

MaxNotes == 2
MaxTracks == 2

\* notes inside and outside the ranges of MIDI: a note number above 127 and
\* below 0, a velocity above 127 and below 1, a negative start time, a zero
\* and a negative duration
Notes ==
    {[note |-> 60, velocity |-> 100, time |-> 0, duration |-> 5],
     [note |-> 64, velocity |-> 90, time |-> 5, duration |-> 10],
     [note |-> 200, velocity |-> 100, time |-> 0, duration |-> 5],
     [note |-> -1, velocity |-> 100, time |-> 0, duration |-> 5],
     [note |-> 60, velocity |-> 200, time |-> 0, duration |-> 5],
     [note |-> 60, velocity |-> -20, time |-> 5, duration |-> 20],
     [note |-> 60, velocity |-> 100, time |-> -10, duration |-> 5],
     [note |-> 60, velocity |-> 100, time |-> 0, duration |-> 0],
     [note |-> 60, velocity |-> 100, time |-> 10, duration |-> -5]}

NoteLists == UNION {[1..n -> Notes] : n \in 0..MaxNotes}

TrackNames == {"Piano", "Tempo Track"}

Tracks ==
    {[notes |-> notes] : notes \in NoteLists}
    \cup {[trackName |-> name, notes |-> notes] : name \in TrackNames, notes \in NoteLists}

\* the tracks of the calls with several tracks
FewTracks ==
    {[trackName |-> "Tempo Track", notes |-> <<>>],
     [trackName |-> "Piano",
      notes |-> <<[note |-> 60, velocity |-> 100, time |-> 0, duration |-> 5]>>],
     [notes |-> <<[note |-> 64, velocity |-> 90, time |-> 5, duration |-> 10],
                  [note |-> 60, velocity |-> 100, time |-> 0, duration |-> 5]>>]}

TrackLists ==
    {<<track>> : track \in Tracks}
    \cup UNION {[1..n -> FewTracks] : n \in 0..MaxTracks}

\* preferences with two or three keywords learned in five dimensions
LearnedWeights(keywords) ==
    [i \in 1..Len(keywords) |-> [key |-> keywords[i], weight |-> OneFifth]]

LearnedPreferences ==
    [d \in Dimensions |->
        IF d = "style" THEN LearnedWeights(<<"jazz", "classical", "rock">>)
        ELSE IF d = "mood" THEN LearnedWeights(<<"happy", "melancholic", "energetic">>)
        ELSE IF d = "key" THEN LearnedWeights(<<"c major", "g major">>)
        ELSE IF d = "pattern"
        THEN LearnedWeights(<<"chord", "progression", "syncopated">>)
        ELSE IF d = "humanization" THEN LearnedWeights(<<"swing", "expressive">>)
        ELSE <<>>]

\* the options of the calls: the bpm, and the preferences or none
MidiOptions ==
    {[bpm |-> 120, preferences |-> NoPreferences],
     [bpm |-> 90, preferences |-> INITIAL_PREFERENCES],
     [bpm |-> 120, preferences |-> LearnedPreferences]}

\* a download is asked for: the tracks of a generation result and the options
MidiInit ==
    /\ state = getInitialState(Null)
    /\ storage = stateToStore(state)
    /\ error = "none"
    /\ \E tracks \in TrackLists, options \in MidiOptions :
        last = [op |-> "downloadMidi", tracks |-> tracks, bpm |-> options.bpm,
                preferences |-> options.preferences]

\* the download handler calls the encoder
CreateMidiBlob ==
    /\ last.op = "downloadMidi"
    /\ last' = [op |-> "createMidiBlob", tracks |-> last.tracks, bpm |-> last.bpm,
                preferences |-> last.preferences,
                result |-> createMidiBlob(last.tracks, last.bpm, last.preferences)]
    /\ UNCHANGED <<state, storage, error>>

MidiNext == CreateMidiBlob

MidiSpec == MidiInit /\ [][MidiNext]_vars

\* ------------------------------------------------------------------------
\* The encoder called on a track without notes at bounded tempos
\* ------------------------------------------------------------------------

MaxBpm == 300

\* a download is asked for at a whole bpm from 1 to MaxBpm
TempoInit ==
    /\ state = getInitialState(Null)
    /\ storage = stateToStore(state)
    /\ error = "none"
    /\ \E bpm \in 1..MaxBpm :
        last = [op |-> "downloadMidi", tracks |-> <<[notes |-> <<>>]>>,
                bpm |-> bpm, preferences |-> NoPreferences]

TempoSpec == TempoInit /\ [][MidiNext]_vars

\* ------------------------------------------------------------------------
\* writeVLQ called on bounded tick deltas
\* ------------------------------------------------------------------------

MaxSmallDelta == 130

\* the deltas from 0 to MaxSmallDelta, and the deltas around the lengths of
\* two, three, four and five bytes, around 2^31 and 2^32
TickDeltas ==
    {Wide(0, n) : n \in 0..MaxSmallDelta}
    \cup {Wide(0, 16383), Wide(0, 16384), Wide(0, 2097151), Wide(0, 2097152),
          Wide(0, 2^28 - 1), Wide(1, 0), Wide(7, 2^28 - 1), Wide(8, 0),
          Wide(15, 2^28 - 1), Wide(16, 5)}

\* a delta is about to be written
VlqInit ==
    /\ state = getInitialState(Null)
    /\ storage = stateToStore(state)
    /\ error = "none"
    /\ \E value \in TickDeltas : last = [op |-> "delta", value |-> value]

\* writeVLQ(delta): its operators & and >>= take the value to 32 bits
WriteVLQ ==
    /\ last.op = "delta"
    /\ last' = [op |-> "writeVLQ", value |-> last.value,
                result |-> writeVLQ(ToInt32(last.value))]
    /\ UNCHANGED <<state, storage, error>>

VlqNext == WriteVLQ

VlqSpec == VlqInit /\ [][VlqNext]_vars

\* ------------------------------------------------------------------------
\* The validation pass (src/services/midiValidationService.ts)
\* ------------------------------------------------------------------------

\* a faulty clamp of the note number, without the lower bound
ClampNoteFromAbove(n) == Min(108, n)

\* Math.max(21, Math.min(108, note.note))
ClampNote(n) == Max(21, Min(108, n))

\* the note the map builds: {...note, note, velocity, time, duration}, time
\* and duration in tenths of a second, 0.1 being one tenth
enhancedNote(note) ==
    [note |-> ClampNote(note.note),
     velocity |-> Max(1, Min(127, note.velocity)),
     time |-> Max(0, note.time),
     duration |-> Max(1, note.duration)]

\* one step of the stable sort by (a, b) => a.time - b.time
InsertByTime(sorted, note) ==
    LET later == {i \in 1..Len(sorted) : sorted[i].time > note.time}
        at == IF later = {} THEN Len(sorted) + 1
              ELSE CHOOSE i \in later : \A j \in later : i <= j
    IN  SubSeq(sorted, 1, at - 1) \o <<note>> \o SubSeq(sorted, at, Len(sorted))

\* a faulty pass, the notes left in the order of the result
NotesAsGenerated(sorted, notes) == sorted \o notes

\* enhancedNotes.sort((a, b) => a.time - b.time)
RECURSIVE SortByTime(_, _)
SortByTime(sorted, notes) ==
    IF notes = <<>> THEN sorted
    ELSE SortByTime(InsertByTime(sorted, Head(notes)), Tail(notes))

\* {...track, notes: enhancedNotes}
enhancedTrack(track) ==
    [track EXCEPT !.notes =
        SortByTime(<<>>, [i \in 1..Len(track.notes) |-> enhancedNote(track.notes[i])])]

\* {...midiResult, tracks: enhancedTracks}
validateAndEnhanceMidi(midiResult) ==
    [midiResult EXCEPT !.tracks =
        [i \in 1..Len(midiResult.tracks) |-> enhancedTrack(midiResult.tracks[i])]]

\* notes at and beyond the limits of the pass
RawNotes ==
    {[note |-> p[1], velocity |-> p[2], time |-> t, duration |-> d] :
        p \in {<<200, 0>>, <<20, 128>>, <<21, 1>>, <<108, 127>>},
        t \in {-10, 0, 5}, d \in {0, 1, 5}}

RawNoteLists == UNION {[1..n -> RawNotes] : n \in 0..MaxNotes}

\* the tracks of the results with several tracks
FewRawTracks ==
    {[trackName |-> "Piano",
      notes |-> <<[note |-> 21, velocity |-> 1, time |-> 5, duration |-> 5],
                  [note |-> 200, velocity |-> 0, time |-> -10, duration |-> 0]>>],
     [notes |-> <<>>]}

\* generation results, as parsed from the answer of the model
MidiResults ==
    {[description |-> "a result", bpm |-> 120, tracks |-> tracks] :
        tracks \in {<<[notes |-> notes]>> : notes \in RawNoteLists}
                   \cup UNION {[1..n -> FewRawTracks] : n \in 0..MaxTracks}}

\* a result was generated
ValidatorInit ==
    /\ state = getInitialState(Null)
    /\ storage = stateToStore(state)
    /\ error = "none"
    /\ \E midiResult \in MidiResults : last = [op |-> "generated", midiResult |-> midiResult]

\* the result goes through the pass, which builds new arrays and new
\* objects and writes to no part of its argument
ValidateAndEnhanceMidi ==
    /\ last.op = "generated"
    /\ last' = [op |-> "validateAndEnhanceMidi", midiResult |-> last.midiResult,
                result |-> validateAndEnhanceMidi(last.midiResult)]
    /\ UNCHANGED <<state, storage, error>>

ValidatorNext == ValidateAndEnhanceMidi

ValidatorSpec == ValidatorInit /\ [][ValidatorNext]_vars

\* ------------------------------------------------------------------------
\* The download handlers of the generation card and of the session library
\* ------------------------------------------------------------------------

\* a faulty test, a track list without tracks let through
TracksUndefined(midiResult) ==
    \/ midiResult = Null
    \/ "tracks" \notin DOMAIN midiResult

\* !midiResult?.tracks || midiResult.tracks.length === 0
NoTracks(midiResult) ==
    \/ midiResult = Null
    \/ "tracks" \notin DOMAIN midiResult
    \/ Len(midiResult.tracks) = 0

\* midiResult?.bpm || analysisResult?.bpm || 120
BpmOf(midiResult, analysisResult) ==
    IF "bpm" \in DOMAIN midiResult /\ midiResult.bpm # 0 THEN midiResult.bpm
    ELSE IF analysisResult # Null /\ analysisResult.bpm # 0 THEN analysisResult.bpm
    ELSE 120

NoMidiGenerated == "No MIDI data was generated to download. Please try generating a new idea."

NoMidiForItem == "No MIDI data to download for this item."

PianoTrack ==
    [trackName |-> "Piano",
     notes |-> <<[note |-> 60, velocity |-> 100, time |-> 0, duration |-> 5]>>]

\* what the card or a library item may hold: nothing, a result without
\* tracks, with an empty track list, with one track or with two
GenerationResults ==
    {Null,
     [description |-> "classic"],
     [description |-> "Jazz jazz", tracks |-> <<>>],
     [description |-> "classic", bpm |-> 90, tracks |-> <<>>],
     [description |-> "Jazz jazz", tracks |-> <<PianoTrack>>],
     [description |-> "classic", bpm |-> 0, tracks |-> <<PianoTrack>>],
     [description |-> "expressive chord", bpm |-> 90,
      tracks |-> <<PianoTrack, [notes |-> <<>>]>>]}

AnalysisResults == {Null, [bpm |-> 100]}

\* a download handler: the message and nothing else when there are no
\* tracks; otherwise the feedback, where the handler gives one and learning
\* is on, and the call of the encoder, with the preferences of this render
\* where the handler passes them and learning is on
Download(op, message, learns, sideChannel) ==
    /\ Idle
    /\ state.sampleCount < MaxSampleCount
    /\ \E midiResult \in GenerationResults, analysisResult \in AnalysisResults :
        IF NoTracks(midiResult)
        THEN /\ last' = [op |-> op, midiResult |-> midiResult, alert |-> message,
                         feedback |-> <<>>, encoder |-> <<>>]
             /\ UNCHANGED <<state, storage, error>>
        ELSE LET feedback ==
                     IF learns /\ state.isEnabled
                     THEN <<[description |-> midiResult.description,
                             action |-> DOWNLOAD]>>
                     ELSE <<>>
                 bpm == BpmOf(midiResult, analysisResult)
                 preferences ==
                     IF sideChannel /\ state.isEnabled
                     THEN state.preferences ELSE NoPreferences
             IN  Commit(IF Len(feedback) > 0
                        THEN handleFeedback(state, midiResult.description, DOWNLOAD)
                        ELSE state,
                        [op |-> op, midiResult |-> midiResult, alert |-> "",
                         feedback |-> feedback,
                         encoder |->
                            <<[tracks |-> midiResult.tracks, bpm |-> bpm,
                               preferences |-> preferences,
                               result |-> createMidiBlob(midiResult.tracks, bpm,
                                                         preferences)]>>])

\* downloadMidi of the generation card, in its two versions
DownloadMidi == Download("downloadMidi", NoMidiGenerated, TRUE, TRUE)

DownloadMidiOfCard == Download("downloadMidi of GenerationCard", NoMidiGenerated, TRUE, FALSE)

\* downloadCombined: createCombinedBlob calls the encoder on its arguments
DownloadCombined == Download("downloadCombined", NoMidiGenerated, TRUE, TRUE)

\* handleDownload of the session library
HandleDownload == Download("handleDownload", NoMidiForItem, FALSE, FALSE)

DownloadOps ==
    {"downloadMidi", "downloadMidi of GenerationCard", "downloadCombined",
     "handleDownload"}

DownloadNext ==
    \/ ToggleLearning
    \/ DownloadMidi
    \/ DownloadMidiOfCard
    \/ DownloadCombined
    \/ HandleDownload

DownloadSpec == EngineInit /\ [][DownloadNext]_vars

\* ------------------------------------------------------------------------
\* From the generated result through the validation pass to the download
\* ------------------------------------------------------------------------

\* notes of one pitch and of another, soft and loud, short and long
GeneratedNotes ==
    {[note |-> p[1], velocity |-> p[2], time |-> t, duration |-> d] :
        p \in {<<60, 0>>, <<60, 100>>, <<64, 7>>}, t \in {0, 5}, d \in {0, 5}}

\* results of one track with up to MaxNotes notes in any order, and one
\* without tracks
GeneratedResults ==
    {[description |-> "a result", bpm |-> 120,
      tracks |-> <<[trackName |-> "Piano", notes |-> notes]>>] :
        notes \in UNION {[1..n -> GeneratedNotes] : n \in 0..MaxNotes}}
    \cup {[description |-> "a result", bpm |-> 120, tracks |-> <<>>]}

PipelineInit ==
    /\ state = getInitialState(Null)
    /\ storage = stateToStore(state)
    /\ error = "none"
    /\ \E midiResult \in GeneratedResults :
        last = [op |-> "generated", midiResult |-> midiResult]

\* downloadMidi on the result the pass returned, learning being off
DownloadValidated ==
    /\ last.op = "validateAndEnhanceMidi"
    /\ IF NoTracks(last.result)
       THEN last' = [op |-> "downloadMidi", midiResult |-> last.result,
                     alert |-> NoMidiGenerated, feedback |-> <<>>, encoder |-> <<>>]
       ELSE last' = [op |-> "createMidiBlob", generated |-> last.midiResult,
                     tracks |-> last.result.tracks,
                     bpm |-> BpmOf(last.result, Null),
                     preferences |-> NoPreferences,
                     result |-> createMidiBlob(last.result.tracks,
                                               BpmOf(last.result, Null),
                                               NoPreferences)]
    /\ UNCHANGED <<state, storage, error>>

PipelineNext ==
    \/ ValidateAndEnhanceMidi
    \/ DownloadValidated

PipelineSpec == PipelineInit /\ [][PipelineNext]_vars

\* ------------------------------------------------------------------------
\* The bulk import (src/components/BulkImportCard.tsx)
\* ------------------------------------------------------------------------

\* the files chosen for an import: the button is disabled without files
FileLists == UNION {[1..n -> FileNames] : n \in 1..MaxBulk}

Importing == last.op = "handleImport"

\* the Import button is pressed, which takes learning to be on and no import
\* to be running: handleImport makes the descriptions and waits for the
\* first delay; it holds the onBulkLearn of the render it was made in
HandleImport ==
    /\ Idle
    /\ ~Importing
    /\ state.isEnabled
    /\ state.sampleCount < MaxSampleCount
    /\ \E files \in FileLists, type \in ImportTypes :
        last' = [op |-> "handleImport", type |-> type, files |-> files,
                 descriptions |->
                    [i \in 1..Len(files) |-> DescriptionOf(files[i], type)],
                 onBulkLearn |-> [isEnabled |-> state.isEnabled],
                 processed |-> 0]
    /\ UNCHANGED <<state, storage, error>>

\* one delay of the loop has passed
ProcessFile ==
    /\ Importing
    /\ last.processed < Len(last.files)
    /\ last' = [last EXCEPT !.processed = @ + 1]
    /\ UNCHANGED <<state, storage, error>>

\* the user turns learning on or off, an import running or not
ToggleLearningMeanwhile ==
    /\ Idle
    /\ state' = toggleLearning(state)
    /\ storage' = stateToStore(state')
    /\ last' = IF Importing THEN last ELSE [op |-> "toggleLearning"]
    /\ UNCHANGED error

\* after the last delay handleImport calls the onBulkLearn it holds
OnBulkLearn ==
    /\ Idle
    /\ Importing
    /\ last.processed = Len(last.files)
    /\ Commit(handleBulkFeedbackOfRender(last.onBulkLearn.isEnabled, state,
                                         last.descriptions, LIKE),
              [op |-> "onBulkLearn", descriptions |-> last.descriptions,
               action |-> LIKE, before |-> state])

BulkImportNext ==
    \/ HandleImport
    \/ ProcessFile
    \/ ToggleLearningMeanwhile
    \/ OnBulkLearn

BulkImportSpec == EngineInit /\ [][BulkImportNext]_vars

\* ------------------------------------------------------------------------
\* Properties of the preference engine
\* ------------------------------------------------------------------------

Keys(weights) == {weights[i].key : i \in 1..Len(weights)}

\* the keywords of a dimension that occur in a description
MatchedKeys(dimension, description) ==
    {MatchedIn(dimension, description)[i].keyword :
        i \in 1..Len(MatchedIn(dimension, description))}

\* the weight stored for a keyword of a dimension the preferences have
WeightOf(preferences, dimension, keyword) == Lookup(preferences[dimension], keyword)

\* the doubles 0.2, 0.7999999999999999 and 0.9999999999999999
NearFourFifths == Num(FALSE, 214748364, 429496720)
NearOne == Num(FALSE, 268435455, 536870896)

\* C1: every weight stored in the preferences lies in [0.1, 1.0], in every
\* state the feedback operations reach from the fresh state
C1_WeightsWithinBounds ==
    \A d \in DOMAIN state.preferences :
        \A i \in 1..Len(state.preferences[d]) :
            /\ ~Less(state.preferences[d][i].weight, Tenth)
            /\ ~Less(One, state.preferences[d][i].weight)

\* the tenth LIKE in a row of "swing" has left its weight at the ceiling
C1_Witness ==
    /\ last.op \in {"handleFeedback", "handleBulkFeedback", "learnFromSnippetAnalysis"}
    /\ state.sampleCount >= 10
    /\ HasKey(state.preferences["humanization"], "swing")
    /\ WeightOf(state.preferences, "humanization", "swing") = One

\* C2: a state loaded from a stored item that lacks some of the ten
\* dimensions has all ten of them, and the stored weights, isEnabled and
\* sampleCount are as they were stored
C2_MigrationBackfillsAllDimensions ==
    (last.op = "mount" /\ "preferences" \in DOMAIN last.stored) =>
        /\ DOMAIN state.preferences = Dimensions
        /\ \A d \in DOMAIN last.stored.preferences :
                state.preferences[d] = last.stored.preferences[d]
        /\ state.isEnabled = last.stored.isEnabled
        /\ state.sampleCount = last.stored.sampleCount

\* the delta the contract gives each feedback action
DeltaOf(action) ==
    IF action \in {LIKE, DOWNLOAD} THEN Tenth
    ELSE IF action = DISLIKE THEN Neg(Tenth)
    ELSE Neg(Half(Tenth))

\* the weights of one dimension after the keywords in hit, and no others,
\* were moved by delta from their weight, or from 0.1 if they had none
MovedBy(old, new, hit, delta) ==
    /\ Keys(new) = Keys(old) \cup hit
    /\ \A k \in Keys(new) :
            Lookup(new, k) =
                IF k \in hit
                THEN Clamp(fadd(IF k \in Keys(old) THEN Lookup(old, k) ELSE Tenth, delta))
                ELSE Lookup(old, k)

\* C3: a call of handleFeedback with learning enabled moves the weight of
\* every keyword that occurs in the description once, by +0.1 for like and
\* download, -0.1 for dislike and -0.05 for regenerate, from 0.1 if the
\* keyword had no weight, clamped to [0.1, 1.0], and leaves every other
\* weight as it was
C3_OneUpdatePerMatchedKeyword ==
    [][(last'.op = "handleFeedback" /\ state.isEnabled) =>
            \A d \in Dimensions :
                MovedBy(state.preferences[d], state'.preferences[d],
                        MatchedKeys(d, last'.description), DeltaOf(last'.action))]_vars

\* a download of a description with "jazz" twice, after "expressive" and
\* "chord" were learned: jazz is at 0.2 and the others where they were
C3_Witness ==
    /\ last.op = "handleFeedback"
    /\ last.description = "Jazz jazz"
    /\ last.action = DOWNLOAD
    /\ state.isEnabled
    /\ Keys(state.preferences["style"]) = {"jazz"}
    /\ WeightOf(state.preferences, "style", "jazz") = OneFifth
    /\ Keys(state.preferences["pattern"]) = {"chord"}
    /\ WeightOf(state.preferences, "pattern", "chord") = OneFifth

\* C4: a call of handleFeedback with learning enabled adds exactly 1 to
\* sampleCount, whatever number of keywords the description matches
C4_OneSamplePerCall ==
    [][(last'.op = "handleFeedback" /\ state.isEnabled) =>
            state'.sampleCount = state.sampleCount + 1]_vars

\* the number of descriptions of a batch in which a keyword occurs
TextsWith(dimension, keyword, descriptions) ==
    Cardinality({i \in 1..Len(descriptions) :
                    keyword \in MatchedKeys(dimension, descriptions[i])})

\* delta added n times to 0, one addition after the other
RECURSIVE SumOfDeltas(_, _)
SumOfDeltas(n, delta) ==
    IF n = 0 THEN Zero ELSE fadd(SumOfDeltas(n - 1, delta), delta)

\* the sum of n deltas of each action, for the batches of the model
DeltaSums ==
    [n \in 0..MaxBulk, action \in FeedbackAction |-> SumOfDeltas(n, DeltaOf(action))]

\* C5: a call of handleBulkFeedback with learning enabled moves the weight of
\* every keyword by the sum of one delta per description in which it occurs,
\* from 0.1 if the keyword had no weight, clamps the result once, leaves
\* every other weight as it was, and adds the number of descriptions to
\* sampleCount
C5_BulkSumsThenClampsOnce ==
    [][(last'.op = "handleBulkFeedback" /\ state.isEnabled /\ error' = "none") =>
            LET descriptions == last'.descriptions
            IN  /\ state'.sampleCount = state.sampleCount + Len(descriptions)
                /\ \A d \in Dimensions :
                    LET old == state.preferences[d]
                        new == state'.preferences[d]
                    IN  /\ Keys(new) = Keys(old) \cup
                                UNION {MatchedKeys(d, descriptions[i]) :
                                            i \in 1..Len(descriptions)}
                        /\ \A k \in Keys(new) :
                            LET n == TextsWith(d, k, descriptions)
                            IN  Lookup(new, k) =
                                    IF n = 0 THEN Lookup(old, k)
                                    ELSE Clamp(fadd(IF k \in Keys(old)
                                                    THEN Lookup(old, k) ELSE Tenth,
                                                    DeltaSums[n, last'.action]))]_vars

\* a batch of two descriptions with "chord", liked as the first learning:
\* the weight of chord is 0.1 + 0.2 and two samples were counted
C5_Witness ==
    /\ last.op = "handleBulkFeedback"
    /\ last.descriptions = <<"expressive chord", "expressive chord">>
    /\ last.action = LIKE
    /\ state.sampleCount = 2
    /\ Keys(state.preferences["pattern"]) = {"chord"}
    /\ WeightOf(state.preferences, "pattern", "chord") = ThreeTenths

\* the weight of style/jazz in a state that has one
JazzWeight(s) == WeightOf(s.preferences, "style", "jazz")

\* C6: from the state in which the weight of jazz is 0.7999999999999999,
\* liking a batch of two descriptions with "jazz" leaves a weight of jazz
\* other than the one left by liking the two descriptions one after the
\* other: the batch leaves 1.0, the two calls leave 0.9999999999999999
C6_BulkDiffersFromSequential ==
    [][(/\ last'.op = "handleBulkFeedback"
        /\ last'.descriptions = <<JazzDescription, JazzDescription>>
        /\ last'.action = LIKE
        /\ state.isEnabled
        /\ HasKey(state.preferences["style"], "jazz")
        /\ JazzWeight(state) = NearFourFifths) =>
            LET sequential ==
                    handleFeedback(handleFeedback(state, JazzDescription, LIKE),
                                   JazzDescription, LIKE)
            IN  /\ JazzWeight(state') = One
                /\ JazzWeight(sequential) = NearOne
                /\ JazzWeight(state') # JazzWeight(sequential)
                /\ state'.sampleCount = sequential.sampleCount]_vars

\* the batch of two was liked after seven samples and has left jazz at 1.0
C6_Witness ==
    /\ last.op = "handleBulkFeedback"
    /\ last.descriptions = <<JazzDescription, JazzDescription>>
    /\ last.action = LIKE
    /\ state.sampleCount = 9
    /\ HasKey(state.preferences["style"], "jazz")
    /\ JazzWeight(state) = One

\* C7: in every state reached through loading, feedback, toggle, reset and
\* import, confidence is min(100, sampleCount / 50 * 100)
C7_ConfidenceDerivedFromSampleCount ==
    /\ "confidence" \in DOMAIN state
    /\ state.confidence = Min(100, (state.sampleCount * 100) \div 50)

C9_SnippetScopedToItsDimensions ==
    [][(last'.op = "learnFromSnippetAnalysis" /\ state.isEnabled) =>
            \A d \in Dimensions :
                MovedBy(state.preferences[d], state'.preferences[d],
                        IF d = "humanization"
                        THEN MatchedKeys(d, last'.analysis.humanization)
                        ELSE IF d = "pattern"
                        THEN MatchedKeys(d, last'.analysis.pattern)
                        ELSE {},
                        Tenth)]_vars

\* the first learning was a snippet whose humanization text has a keyword of
\* humanization, of pattern and of dynamic_expression, and whose pattern text
\* has a keyword of style: only humanization/expressive was learned
C9_Witness ==
    /\ last.op = "learnFromSnippetAnalysis"
    /\ last.analysis = [humanization |-> "expressive chord", pattern |-> "Jazz jazz"]
    /\ state.isEnabled
    /\ state.sampleCount = 1
    /\ Keys(state.preferences["humanization"]) = {"expressive"}
    /\ WeightOf(state.preferences, "humanization", "expressive") = OneFifth
    /\ \A d \in Dimensions \ {"humanization"} : state.preferences[d] = <<>>

\* C10: a confirmed reset leaves the ten dimensions empty, sampleCount and
\* confidence 0 and isEnabled as it was, whatever was learned, loaded or
\* imported before; a declined reset leaves the state as it was
C10_ResetClearsLearning ==
    [][last'.op = "resetLearning" =>
            IF last'.confirmed
            THEN state' = [isEnabled |-> state.isEnabled,
                           preferences |-> [d \in Dimensions |-> <<>>],
                           sampleCount |-> 0,
                           confidence |-> 0]
            ELSE state' = state]_vars

\* a reset was confirmed with learning on, and what it left was stored
C10_Witness ==
    /\ last.op = "resetLearning"
    /\ last.confirmed
    /\ state.isEnabled
    /\ state.sampleCount = 0
    /\ \A d \in Dimensions : state.preferences[d] = <<>>
    /\ storage = stateToStore(state)

\* C11: no operation of the preference engine raises an error, in any state
\* reached from a stored item, one that lacks dimensions included
C11_NoOperationRaises == error = "none"

\* C12: the record in storage is exactly isEnabled, preferences and
\* sampleCount of the current state, after every change of the state; it
\* never has a confidence field
C12_StorageHoldsPersistedFields ==
    /\ DOMAIN storage = {"isEnabled", "preferences", "sampleCount"}
    /\ storage.isEnabled = state.isEnabled
    /\ storage.preferences = state.preferences
    /\ storage.sampleCount = state.sampleCount

\* C13: getTopPreference gives null for an empty weight map, and otherwise
\* a keyword of maximal weight in the map, the first inserted one of those
\* that share the maximum
C13_TopKeywordIsFirstMaximum ==
    last.op = "getTopPreference" =>
        LET weights == state.preferences[last.dimension]
        IN  IF Len(weights) = 0 THEN last.result = Null
            ELSE \E i \in 1..Len(weights) :
                    /\ last.result = weights[i].key
                    /\ \A j \in 1..Len(weights) :
                            ~Less(weights[i].weight, weights[j].weight)
                    /\ \A j \in 1..(i - 1) :
                            Less(weights[j].weight, weights[i].weight)

\* the top keyword of style was asked where rock and blues share the maximum
\* and rock was inserted first, behind a lighter jazz
C13_Witness ==
    /\ last.op = "getTopPreference"
    /\ last.dimension = "style"
    /\ state.preferences["style"] =
            <<[key |-> "jazz", weight |-> Tenth],
              [key |-> "rock", weight |-> One],
              [key |-> "blues", weight |-> One]>>
    /\ last.result = "rock"

\* the keyword a phrase is an occurrence of, if it is one
NoKeyword == [dimension |-> "none", keyword |-> "none"]

KeywordOf(phrase) ==
    IF phrase \in {"jazz", "JaZZ"} THEN [dimension |-> "style", keyword |-> "jazz"]
    ELSE IF phrase = "classical" THEN [dimension |-> "style", keyword |-> "classical"]
    ELSE IF phrase = "four-on-the-floor"
    THEN [dimension |-> "pattern", keyword |-> "four-on-the-floor"]
    ELSE IF phrase \in {"c major", "C \t\n major"}
    THEN [dimension |-> "key", keyword |-> "c major"]
    ELSE NoKeyword

\* a neighbour that makes the phrase a part of a longer word: a letter, a
\* digit or an underscore
Attached(neighbour) == neighbour \in {"s", "_"}

\* the keywords of a dimension whose weight a step has set or changed
Changed(old, new) ==
    {k \in Keys(new) : k \notin Keys(old) \/ Lookup(new, k) # Lookup(old, k)}

\* C14: liking a text that puts a phrase between two neighbours updates the
\* keyword the phrase is an occurrence of, if neither neighbour is a letter,
\* a digit or an underscore, and updates nothing else: "classic",
\* "four-on-the" and "four on the floor" update nothing, "sjazz" and "jazz_"
\* update nothing, "JaZZ" updates jazz and "C \t\n major" updates c major
C14_WholePhraseOnWordBoundaries ==
    [][(/\ last'.op = "handleFeedback"
        /\ last'.action = LIKE
        /\ last'.description \in MatchTexts
        /\ state.isEnabled) =>
            \A case \in MatchCases :
                TextOf(case) = last'.description =>
                    \A d \in Dimensions :
                        Changed(state.preferences[d], state'.preferences[d]) =
                            IF /\ KeywordOf(case.phrase).dimension = d
                               /\ ~Attached(case.before)
                               /\ ~Attached(case.after)
                            THEN {KeywordOf(case.phrase).keyword}
                            ELSE {}]_vars

\* the key "c major" was learned from a text that has it in capitals, with a
\* blank, a tab and a line feed between its words, after a hyphen
C14_Witness ==
    /\ last.op = "handleFeedback"
    /\ last.action = LIKE
    /\ last.description = "-C \t\n major"
    /\ state.isEnabled
    /\ Keys(state.preferences["key"]) = {"c major"}
    /\ \A d \in Dimensions \ {"key"} : state.preferences[d] = <<>>

\* ------------------------------------------------------------------------
\* Properties of the MIDI encoder
\* ------------------------------------------------------------------------

Returned == last.op = "createMidiBlob" /\ last.result # Diverges

\* the meta events createTrackChunk writes before the notes of a track
MetaEventsWritten(track, bpm, preferences) ==
    (IF "trackName" \in DOMAIN track /\ track.trackName = "Tempo Track" THEN <<>>
     ELSE <<[meta |-> 81, data |-> SubSeq(trackDataOf(track, bpm, preferences), 5, 7)]>>)
    \o (IF "trackName" \in DOMAIN track
        THEN <<[meta |-> 3, data |-> CharCodes(track.trackName)]>> ELSE <<>>)
    \o (IF preferences # NoPreferences
        THEN <<[meta |-> 1, data |-> CharCodes(preferenceData(preferences))]>> ELSE <<>>)

\* the first n events a standard reader finds from pos on, all of them meta
\* events, or NoEvents
RECURSIVE ReadMetaEvents(_, _, _)
ReadMetaEvents(bytes, pos, n) ==
    IF n = 0 THEN <<>>
    ELSE LET delta == ReadVLQ(bytes, pos, 0)
         IN  IF delta = Fail THEN NoEvents
             ELSE IF delta.next + 1 > Len(bytes) \/ bytes[delta.next] # 255 THEN NoEvents
             ELSE LET length == ReadVLQ(bytes, delta.next + 2, 0)
                  IN  IF length = Fail THEN NoEvents
                      ELSE IF length.next + length.value - 1 > Len(bytes) THEN NoEvents
                      ELSE LET rest == ReadMetaEvents(bytes, length.next + length.value, n - 1)
                           IN  IF rest = NoEvents THEN NoEvents
                               ELSE <<[meta |-> bytes[delta.next + 1],
                                       data |-> SubSeq(bytes, length.next,
                                                       length.next + length.value - 1)]>>
                                    \o rest

\* the notes of the track are notes of MIDI and no event lies before tick 0
NotesOfMidi(track, bpm) ==
    \A i \in 1..Len(track.notes) :
        /\ track.notes[i].note \in 0..127
        /\ TickOf(track.notes[i].time, bpm) >= 0
        /\ TickOf(track.notes[i].time + track.notes[i].duration, bpm) >= 0

\* C15: in every chunk the encoder returns, a standard reader finds the meta
\* events as they were written (the tempo, the track name, the text of the
\* preferences with all its characters), and when the notes are notes of
\* MIDI it reads the chunk event by event and meets the end of track exactly
\* at the end of the chunk.
C15_MetaEventLengthsReadBack ==
    Returned =>
        \A i \in 1..Len(last.tracks) :
            LET track == last.tracks[i]
                chunk == createTrackChunk(track, last.bpm, last.preferences)
                written == MetaEventsWritten(track, last.bpm, last.preferences)
            IN  /\ ReadMetaEvents(SubSeq(chunk, 9, Len(chunk)), 1, Len(written)) = written
                /\ NotesOfMidi(track, last.bpm) => ReadChunk(chunk) # NoEvents

\* the same for the payloads of at most 127 characters
C15_ShortPayloadsReadBack ==
    (Returned /\ (last.preferences = NoPreferences
                  \/ Len(preferenceData(last.preferences)) <= 127))
        => C15_MetaEventLengthsReadBack

\* the chunks a reader of the file finds from pos on, each four bytes of
\* type, the length on four bytes and that many bytes; NoEvents when the
\* bytes do not end with a chunk
RECURSIVE ChunksFrom(_, _)
ChunksFrom(bytes, pos) ==
    IF pos = Len(bytes) + 1 THEN <<>>
    ELSE IF pos + 7 > Len(bytes) THEN NoEvents
    ELSE LET length == ((bytes[pos + 4] * 256 + bytes[pos + 5]) * 256
                        + bytes[pos + 6]) * 256 + bytes[pos + 7]
         IN  IF pos + 7 + length > Len(bytes) THEN NoEvents
             ELSE LET rest == ChunksFrom(bytes, pos + 8 + length)
                  IN  IF rest = NoEvents THEN NoEvents
                      ELSE <<SubSeq(bytes, pos, pos + 7 + length)>> \o rest

RECURSIVE SumOfLengths(_)
SumOfLengths(chunks) ==
    IF chunks = <<>> THEN 0 ELSE Len(Head(chunks)) + SumOfLengths(Tail(chunks))

\* C16: the bytes returned begin with the 14 bytes 4D 54 68 64 00 00 00 06
\* 00 01 hi lo 01 E0, hi lo being the number of tracks; after them a reader
\* finds one MTrk chunk per track, the chunk of each track in the order of
\* the tracks, and nothing else; the length is 14 plus the lengths of the
\* chunks.
C16_HeaderThenChunksInOrder ==
    Returned =>
        LET chunks == ChunksFrom(last.result, 15)
        IN  /\ Len(last.result) >= 14
            /\ SubSeq(last.result, 1, 10) = <<77, 84, 104, 100, 0, 0, 0, 6, 0, 1>>
            /\ last.result[11] * 256 + last.result[12] = Len(last.tracks)
            /\ SubSeq(last.result, 13, 14) = <<1, 224>>
            /\ chunks # NoEvents
            /\ Len(chunks) = Len(last.tracks)
            /\ \A i \in 1..Len(chunks) :
                /\ SubSeq(chunks[i], 1, 4) = <<77, 84, 114, 107>>
                /\ chunks[i] = createTrackChunk(last.tracks[i], last.bpm, last.preferences)
            /\ Len(last.result) = 14 + SumOfLengths(chunks)

\* two different tracks were encoded
C16_Witness ==
    /\ Returned
    /\ Len(last.tracks) = 2
    /\ "trackName" \in DOMAIN last.tracks[1]
    /\ last.tracks[1].trackName = "Tempo Track"
    /\ Len(last.tracks[2].notes) = 2
    /\ SubSeq(last.result, 11, 18) = <<0, 2, 1, 224, 77, 84, 114, 107>>

\* the bytes are one variable-length quantity that decodes to the value:
\* every byte but the last has its top bit set, the last has it clear, the
\* first is not 0x80, and the seven-bit groups give the value back
IsQuantityOf(bytes, value) ==
    /\ bytes # Diverges
    /\ Len(bytes) >= 1
    /\ \A i \in 1..Len(bytes) - 1 : bytes[i] \in 128..255
    /\ bytes[Len(bytes)] \in 0..127
    /\ bytes[1] # 128
    /\ value.hi < 8
    /\ ReadVLQ(bytes, 1, 0) =
           [value |-> value.hi * 2^28 + value.lo, next |-> Len(bytes) + 1]

\* C17: the bytes written for a non-negative tick delta are one
\* variable-length quantity that decodes to the delta, and zero is written as
\* the single byte 0x00.
C17_QuantityDecodesToDelta ==
    last.op = "writeVLQ" =>
        /\ IsQuantityOf(last.result, last.value)
        /\ last.value = Wide(0, 0) => last.result = <<0>>

\* the same for the deltas below 2^31
C17_DecodesBelowTwoToThe31 ==
    (last.op = "writeVLQ" /\ last.value.hi < 8) => C17_QuantityDecodesToDelta

\* no event of the tracks lies before tick 0
NoTickBeforeZero(tracks, bpm) ==
    \A i \in 1..Len(tracks) : \A j \in 1..Len(tracks[i].notes) :
        LET note == tracks[i].notes[j]
        IN  TickOf(note.time, bpm) >= 0 /\ TickOf(note.time + note.duration, bpm) >= 0

\* C18: the encoder returns bytes for every input, whatever the note
\* numbers, velocities, start times and durations of the notes.
C18_EncoderReturns ==
    last.op = "createMidiBlob" => last.result # Diverges

\* the same for the inputs with no event before tick 0
C18_ReturnsFromTickZeroOn ==
    (last.op = "createMidiBlob" /\ NoTickBeforeZero(last.tracks, last.bpm))
        => C18_EncoderReturns

\* the note events of a track as the encoder emits them
EmittedEvents(track, bpm) == SortByTick(<<>>, EventsOf(track.notes, bpm))

\* C19: in every output, the note-number byte and the velocity byte of
\* every note event lie in 0..127, and every delta-time is non-negative.
C19_NoteBytesWithinRange ==
    Returned =>
        \A i \in 1..Len(last.tracks) :
            LET events == EmittedEvents(last.tracks[i], last.bpm)
            IN  \A j \in 1..Len(events) :
                    /\ ToUint8(events[j].note) \in 0..127
                    /\ ToUint8(events[j].velocity) \in 0..127
                    /\ events[j].tick - (IF j = 1 THEN 0 ELSE events[j - 1].tick) >= 0

\* the same without the note-number byte
C19_VelocityAndDeltaWithinRange ==
    Returned =>
        \A i \in 1..Len(last.tracks) :
            LET events == EmittedEvents(last.tracks[i], last.bpm)
            IN  \A j \in 1..Len(events) :
                    /\ ToUint8(events[j].velocity) \in 0..127
                    /\ events[j].tick - (IF j = 1 THEN 0 ELSE events[j - 1].tick) >= 0

\* the value x brought into lo..hi
Within(lo, hi, x) == IF x < lo THEN lo ELSE IF x > hi THEN hi ELSE x

\* after is before with each note brought into the ranges of the pass, in
\* some order
ClampedAndReordered(before, after) ==
    /\ Len(after) = Len(before)
    /\ \E perm \in [1..Len(before) -> 1..Len(before)] :
        /\ \A i, j \in 1..Len(before) : perm[i] = perm[j] => i = j
        /\ \A i \in 1..Len(before) :
            /\ after[perm[i]].note = Within(21, 108, before[i].note)
            /\ after[perm[i]].velocity = Within(1, 127, before[i].velocity)
            /\ after[perm[i]].time = (IF before[i].time < 0 THEN 0 ELSE before[i].time)
            /\ after[perm[i]].duration =
                   (IF before[i].duration < 1 THEN 1 ELSE before[i].duration)

\* C20: the validation pass keeps the tracks and the number of notes of each
\* track, brings every note number into 21..108, every velocity into
\* 1..127, every time to at least 0 and every duration to at least 0.1
\* second, returns the notes of each track in non-decreasing time order,
\* leaves its argument as it was, and applied to its own result returns the
\* same result.
C20_ValidationClampsAndSorts ==
    [][last'.op = "validateAndEnhanceMidi" =>
        LET before == last.midiResult
            after == last'.result
        IN  /\ last'.midiResult = before
            /\ Len(after.tracks) = Len(before.tracks)
            /\ after.description = before.description /\ after.bpm = before.bpm
            /\ \A i \in 1..Len(before.tracks) :
                LET notes == after.tracks[i].notes
                IN  /\ DOMAIN after.tracks[i] = DOMAIN before.tracks[i]
                    /\ "trackName" \in DOMAIN before.tracks[i]
                           => after.tracks[i].trackName = before.tracks[i].trackName
                    /\ ClampedAndReordered(before.tracks[i].notes, notes)
                    /\ \A j \in 1..Len(notes) :
                        /\ notes[j].note \in 21..108
                        /\ notes[j].velocity \in 1..127
                        /\ notes[j].time >= 0
                        /\ notes[j].duration >= 1
                    /\ \A j \in 1..Len(notes) - 1 : notes[j].time <= notes[j + 1].time
            /\ validateAndEnhanceMidi(after) = after]_vars

\* the note {note: 200, velocity: 0, time: -1, duration: 0} came second in
\* its track and comes out first, as {note: 108, velocity: 1, time: 0,
\* duration: 0.1}
C20_Witness ==
    /\ last.op = "validateAndEnhanceMidi"
    /\ Len(last.midiResult.tracks) = 1
    /\ last.midiResult.tracks[1].notes =
           <<[note |-> 21, velocity |-> 1, time |-> 5, duration |-> 5],
             [note |-> 200, velocity |-> 0, time |-> -10, duration |-> 0]>>
    /\ last.result.tracks[1].notes =
           <<[note |-> 108, velocity |-> 1, time |-> 0, duration |-> 1],
             [note |-> 21, velocity |-> 1, time |-> 5, duration |-> 5]>>

\* the names of the fields of a JSON object whose values are objects of
\* numbers: the strings at depth 1 of the text
RECURSIVE FieldsFrom(_, _, _, _, _)
FieldsFrom(text, i, depth, inString, name) ==
    IF i > Len(text) THEN <<>>
    ELSE LET c == Char(text, i)
         IN  IF inString
             THEN IF c = "\""
                  THEN (IF depth = 1 THEN <<name>> ELSE <<>>)
                       \o FieldsFrom(text, i + 1, depth, FALSE, "")
                  ELSE FieldsFrom(text, i + 1, depth, TRUE, name \o c)
             ELSE IF c = "\"" THEN FieldsFrom(text, i + 1, depth, TRUE, "")
             ELSE IF c = "{" THEN FieldsFrom(text, i + 1, depth + 1, FALSE, "")
             ELSE IF c = "}" THEN FieldsFrom(text, i + 1, depth - 1, FALSE, "")
             ELSE FieldsFrom(text, i + 1, depth, FALSE, "")

\* the number of note events the bytes consist of, each a delta-time, a
\* status byte 0x90 or 0x80 and two more bytes; -1 when they are not that
RECURSIVE CountNoteEvents(_, _)
CountNoteEvents(bytes, pos) ==
    IF pos = Len(bytes) + 1 THEN 0
    ELSE LET delta == ReadVLQ(bytes, pos, 0)
         IN  IF delta = Fail THEN -1
             ELSE IF delta.next + 2 > Len(bytes) THEN -1
             ELSE IF bytes[delta.next] \notin {144, 128} THEN -1
             ELSE LET rest == CountNoteEvents(bytes, delta.next + 3)
                  IN  IF rest = -1 THEN -1 ELSE rest + 1

HasName(track) == "trackName" \in DOMAIN track

\* the bytes before the note events of a track, as the claim lists them; the
\* three bytes of the tempo are taken from the data
LeadingMetaBytes(track, preferences, data) ==
    (IF HasName(track) /\ track.trackName = "Tempo Track" THEN <<>>
     ELSE <<0, 255, 81, 3>> \o SubSeq(data, 5, 7))
    \o (IF HasName(track)
        THEN <<0, 255, 3, Len(track.trackName)>> \o CharCodes(track.trackName)
        ELSE <<>>)
    \o (IF preferences # NoPreferences
        THEN <<0, 255, 1, Len(preferenceData(preferences)) % 256>>
             \o CharCodes(preferenceData(preferences))
        ELSE <<>>)

\* C21: the event stream of every encoded track is, in this order, the tempo
\* meta event at delta 0 unless the track is named "Tempo Track", the name
\* meta event at delta 0 if the track has a name, the text meta event at
\* delta 0 if preferences are supplied, its JSON having exactly the fields
\* style, mood, key, pattern and humanization, then two note events per note
\* and last the bytes 00 FF 2F 00.
C21_EventStreamOrder ==
    Returned =>
        \A i \in 1..Len(last.tracks) :
            LET track == last.tracks[i]
                chunk == createTrackChunk(track, last.bpm, last.preferences)
                data == SubSeq(chunk, 9, Len(chunk))
                metas == LeadingMetaBytes(track, last.preferences, data)
            IN  /\ Len(data) >= Len(metas) + 4
                /\ SubSeq(data, 1, Len(metas)) = metas
                /\ CountNoteEvents(SubSeq(data, Len(metas) + 1, Len(data) - 4), 1)
                       = 2 * Len(track.notes)
                /\ SubSeq(data, Len(data) - 3, Len(data)) = <<0, 255, 47, 0>>
                /\ last.preferences # NoPreferences =>
                       FieldsFrom(preferenceData(last.preferences), 1, 0, FALSE, "")
                           = <<"style", "mood", "key", "pattern", "humanization">>

\* a named track with one note was encoded with learned preferences
C21_Witness ==
    /\ Returned
    /\ Len(last.tracks) = 1
    /\ HasName(last.tracks[1])
    /\ last.tracks[1].trackName = "Piano"
    /\ Len(last.tracks[1].notes) = 1
    /\ last.preferences = LearnedPreferences
    /\ SubSeq(last.result, 23, 26) = <<0, 255, 81, 3>>

\* the note events a reader finds in the bytes from pos on, the delta-times
\* summed from tick on: NoEvents when the bytes are not note events
RECURSIVE ReadNoteEvents(_, _, _)
ReadNoteEvents(bytes, pos, tick) ==
    IF pos = Len(bytes) + 1 THEN <<>>
    ELSE LET delta == ReadVLQ(bytes, pos, 0)
         IN  IF delta = Fail THEN NoEvents
             ELSE IF delta.next + 2 > Len(bytes) THEN NoEvents
             ELSE LET rest == ReadNoteEvents(bytes, delta.next + 3, tick + delta.value)
                  IN  IF rest = NoEvents THEN NoEvents
                      ELSE <<[tick |-> tick + delta.value,
                              delta |-> delta.value,
                              status |-> bytes[delta.next],
                              note |-> bytes[delta.next + 1],
                              velocity |-> bytes[delta.next + 2]]>> \o rest

\* the note events read from the chunk the encoder makes of a track
NoteEventsRead(track, bpm, preferences) ==
    LET chunk == createTrackChunk(track, bpm, preferences)
        data == SubSeq(chunk, 9, Len(chunk))
        metas == LeadingMetaBytes(track, preferences, data)
    IN  ReadNoteEvents(SubSeq(data, Len(metas) + 1, Len(data) - 4), 1, 0)

\* tick is the integer nearest to tenths / 10 seconds at bpm: the distance
\* between tick and tenths * bpm * TPQN / 600 is at most one half
IsTickOf(tick, tenths, bpm) ==
    LET d == 600 * tick - tenths * bpm * TPQN
    IN  2 * d <= 600 /\ 2 * d >= -600

\* the tick at which the g-th generated event of the notes lies: events
\* 2k - 1 and 2k are the on and the off of note k
GeneratedAt(notes, g, tick, bpm) ==
    LET note == notes[(g + 1) \div 2]
    IN  IF g % 2 = 1 THEN IsTickOf(tick, note.time, bpm)
        ELSE IsTickOf(tick, note.time + note.duration, bpm)

\* the tick of the g-th generated event
GeneratedTick(notes, g, bpm) ==
    LET note == notes[(g + 1) \div 2]
    IN  TickOf(IF g % 2 = 1 THEN note.time ELSE note.time + note.duration, bpm)

\* the place of the g-th generated event among the emitted ones when ticks
\* do not decrease and events of one tick keep the order of generation: after
\* the events of an earlier tick and the earlier events of its own tick
PlaceOf(notes, g, bpm) ==
    1 + Cardinality({h \in 1..2 * Len(notes) :
            \/ GeneratedTick(notes, h, bpm) < GeneratedTick(notes, g, bpm)
            \/ /\ GeneratedTick(notes, h, bpm) = GeneratedTick(notes, g, bpm)
               /\ h < g})

\* C22: every note yields an on event (0x90) at the tick nearest to its
\* start and an off event (0x80, velocity 0) at the tick nearest to its
\* end; the note events of a track are emitted in non-decreasing tick
\* order, and events of the same tick in the order in which they were
\* generated: the notes in input order, the on of a note before its off.
C22_TwoEventsPerNoteInStableTickOrder ==
    Returned =>
        \A i \in 1..Len(last.tracks) :
            LET notes == last.tracks[i].notes
                read == NoteEventsRead(last.tracks[i], last.bpm, last.preferences)
            IN  /\ read # NoEvents
                /\ Len(read) = 2 * Len(notes)
                /\ \A j \in 1..Len(read) - 1 : read[j].tick <= read[j + 1].tick
                /\ \A g \in 1..Len(read) :
                    LET event == read[PlaceOf(notes, g, last.bpm)]
                        note == notes[(g + 1) \div 2]
                    IN  /\ GeneratedAt(notes, g, event.tick, last.bpm)
                        /\ event.note = note.note % 256
                        /\ event.status = (IF g % 2 = 1 THEN 144 ELSE 128)
                        /\ g % 2 = 0 => event.velocity = 0

\* the second note ends on the tick on which the first begins: the on of
\* the second, the on of the first, the off of the second, the off of the
\* first
C22_Witness ==
    /\ Returned
    /\ Len(last.tracks) = 1
    /\ last.bpm = 120
    /\ last.tracks[1].notes =
           <<[note |-> 64, velocity |-> 90, time |-> 5, duration |-> 10],
             [note |-> 60, velocity |-> 100, time |-> 0, duration |-> 5]>>
    /\ LET read == NoteEventsRead(last.tracks[1], last.bpm, last.preferences)
       IN  /\ [j \in 1..4 |-> read[j].tick] = <<0, 480, 480, 1440>>
           /\ [j \in 1..4 |-> read[j].note] = <<60, 64, 60, 64>>
           /\ [j \in 1..4 |-> read[j].status] = <<144, 144, 128, 128>>

\* C23: for every note event of a track, the delta-times of the note events
\* up to and including it add up to the tick of the event; the meta events
\* before the notes and the end of track have delta 0.
C23_DeltasSumToTicks ==
    Returned =>
        \A i \in 1..Len(last.tracks) :
            LET track == last.tracks[i]
                chunk == createTrackChunk(track, last.bpm, last.preferences)
                data == SubSeq(chunk, 9, Len(chunk))
                read == NoteEventsRead(track, last.bpm, last.preferences)
            IN  /\ read # NoEvents
                /\ \A g \in 1..2 * Len(track.notes) :
                    read[PlaceOf(track.notes, g, last.bpm)].tick
                        = GeneratedTick(track.notes, g, last.bpm)
                /\ \A k \in 1..Len(read) :
                    read[k].delta >= 0
                /\ data[1] = 0
                /\ data[Len(data) - 3] = 0

\* a note from 0.5 s to 1.5 s at 120 bpm: the deltas 480 and 960, the ticks
\* 480 and 1440
C23_Witness ==
    /\ Returned
    /\ Len(last.tracks) = 1
    /\ last.bpm = 120
    /\ last.tracks[1].notes =
           <<[note |-> 64, velocity |-> 90, time |-> 5, duration |-> 10]>>
    /\ LET read == NoteEventsRead(last.tracks[1], last.bpm, last.preferences)
       IN  /\ [j \in 1..2 |-> read[j].delta] = <<480, 960>>
           /\ [j \in 1..2 |-> read[j].tick] = <<480, 1440>>

\* n is Math.round((duration - 0.5) * 15) for a duration in tenths:
\* n - 1/2 <= (duration - 5) * 1.5 < n + 1/2
IsNudgeOf(n, duration) ==
    2 * n - 1 <= 3 * duration - 15 /\ 3 * duration - 15 < 2 * n + 1

C25_ChunkLengthCountsEventBytes ==
    Returned =>
        \A i \in 1..Len(last.tracks) :
            LET chunk == createTrackChunk(last.tracks[i], last.bpm, last.preferences)
            IN  /\ Len(chunk) >= 8
                /\ SubSeq(chunk, 1, 4) = <<77, 84, 114, 107>>
                /\ \A k \in 5..Len(chunk) : chunk[k] \in 0..255
                /\ chunk[5] * 16777216 + chunk[6] * 65536 + chunk[7] * 256 + chunk[8]
                       = Len(chunk) - 8

\* a track of 260 bytes of events: the length is written 00 00 01 04
C25_Witness ==
    /\ Returned
    /\ last.tracks = <<[notes |-> <<>>]>>
    /\ last.preferences = LearnedPreferences
    /\ SubSeq(last.result, 15, 22) = <<77, 84, 114, 107, 0, 0, 1, 4>>
    /\ Len(last.result) = 14 + 8 + 260

\* the three data bytes of the tempo event of the first track, read as one
\* number, the most significant byte first
TempoRead == last.result[27] * 65536 + last.result[28] * 256 + last.result[29]

\* C26: for every positive bpm the three data bytes of the tempo meta event
\* are the integer nearest to 60,000,000 / bpm.
C26_TempoIsMicrosecondsPerQuarter ==
    Returned =>
        /\ SubSeq(last.result, 23, 26) = <<0, 255, 81, 3>>
        /\ 2 * (TempoRead * last.bpm - 60000000) <= last.bpm
        /\ 2 * (60000000 - TempoRead * last.bpm) <= last.bpm

\* the same for the tempos from 4 bpm on
C26_TempoFromFourBpmOn ==
    (Returned /\ last.bpm >= 4) => C26_TempoIsMicrosecondsPerQuarter

\* C27: a download asked for a result whose track list is missing or empty
\* calls no encoder and gives no feedback: the learning state stays as it
\* was and the message is all that happens; and whenever a download handler
\* calls the encoder, it is with at least one track.
C27_NoTracksNoEncoderNoFeedback ==
    [][last'.op \in DownloadOps =>
        LET midiResult == last'.midiResult
            missing == midiResult = Null \/ "tracks" \notin DOMAIN midiResult
        IN  /\ (missing \/ midiResult.tracks = <<>>) =>
                  /\ last'.encoder = <<>>
                  /\ last'.feedback = <<>>
                  /\ last'.alert \in {NoMidiGenerated, NoMidiForItem}
                  /\ state' = state
                  /\ storage' = storage
            /\ \A i \in 1..Len(last'.encoder) :
                  Len(last'.encoder[i].tracks) >= 1]_vars

\* with learning on, a download of a result with an empty track list was
\* asked for and only the message was shown
C27_Witness ==
    /\ last.op = "downloadMidi"
    /\ state.isEnabled
    /\ last.midiResult = [description |-> "Jazz jazz", tracks |-> <<>>]
    /\ last.alert = NoMidiGenerated
    /\ last.encoder = <<>>

\* C28: every note that went through the validation pass is written with a
\* note-on of velocity 1 or more.
C28_ValidatedNotesSound ==
    (Returned /\ "generated" \in DOMAIN last) =>
        \A i \in 1..Len(last.tracks) :
            LET read == NoteEventsRead(last.tracks[i], last.bpm, last.preferences)
            IN  /\ read # NoEvents
                /\ \A j \in 1..Len(read) :
                      read[j].status = 144 => read[j].velocity >= 1

\* the same for the validated notes of half a second or more
C28_LongValidatedNotesSound ==
    (/\ Returned
     /\ "generated" \in DOMAIN last
     /\ \A i \in 1..Len(last.tracks) : \A k \in 1..Len(last.tracks[i].notes) :
            last.tracks[i].notes[k].duration >= 5)
        => C28_ValidatedNotesSound

\* C29: when learning is off at the moment a bulk import delivers its
\* feedback, having been turned off while the import was running, the
\* delivery changes neither the preferences nor the sample count.
C29_DeliveryChecksCurrentState ==
    [][(Importing /\ last'.op = "onBulkLearn" /\ ~state.isEnabled) =>
            /\ state'.preferences = state.preferences
            /\ state'.sampleCount = state.sampleCount]_vars

\* the same for the deliveries made with learning on: they are learned from
C29_DeliveryWithLearningOn ==
    [][(Importing /\ last'.op = "onBulkLearn" /\ state.isEnabled) =>
            /\ state'.sampleCount = state.sampleCount + Len(last.descriptions)
            /\ state'.isEnabled]_vars

\* C30: in the events written for a track that went through the validation
\* pass, the off of every note comes after the on of that note, and when a
\* note ends on the tick on which a note of the same pitch that starts later
\* begins, the off of the earlier note comes before the on of the later one:
\* on one tick the offs of a pitch are written before its ons.
C30_OffAfterOwnOnAndBeforeNextOn ==
    (Returned /\ "generated" \in DOMAIN last) =>
        \A i \in 1..Len(last.tracks) :
            LET notes == last.tracks[i].notes
                read == NoteEventsRead(last.tracks[i], last.bpm, last.preferences)
                on == [k \in 1..Len(notes) |-> PlaceOf(notes, 2 * k - 1, last.bpm)]
                off == [k \in 1..Len(notes) |-> PlaceOf(notes, 2 * k, last.bpm)]
            IN  /\ read # NoEvents
                /\ Len(read) = 2 * Len(notes)
                /\ \A k \in 1..Len(notes) :
                    /\ read[on[k]].status = 144
                    /\ read[off[k]].status = 128
                    /\ read[on[k]].note = notes[k].note
                    /\ read[off[k]].note = notes[k].note
                    /\ IsTickOf(read[on[k]].tick, notes[k].time, last.bpm)
                    /\ IsTickOf(read[off[k]].tick,
                                notes[k].time + notes[k].duration, last.bpm)
                    /\ on[k] < off[k]
                /\ \A a, b \in 1..Len(notes) :
                    (/\ notes[a].time < notes[b].time
                     /\ notes[a].note = notes[b].note
                     /\ read[off[a]].tick = read[on[b]].tick)
                        => off[a] < on[b]
                /\ \A j, k \in 1..Len(read) :
                    (/\ read[j].tick = read[k].tick
                     /\ read[j].note = read[k].note
                     /\ read[j].status = 128
                     /\ read[k].status = 144)
                        => j < k

\* the result had the later note first: after the pass the first note ends
\* at tick 480, where the second of the same pitch begins, and the events
\* are on, off, on, off
C30_Witness ==
    /\ Returned
    /\ "generated" \in DOMAIN last
    /\ last.generated.tracks[1].notes =
           <<[note |-> 60, velocity |-> 100, time |-> 5, duration |-> 5],
             [note |-> 60, velocity |-> 100, time |-> 0, duration |-> 5]>>
    /\ last.tracks[1].notes =
           <<[note |-> 60, velocity |-> 100, time |-> 0, duration |-> 5],
             [note |-> 60, velocity |-> 100, time |-> 5, duration |-> 5]>>
    /\ LET read == NoteEventsRead(last.tracks[1], last.bpm, last.preferences)
       IN  /\ [j \in 1..4 |-> read[j].tick] = <<0, 480, 480, 960>>
           /\ [j \in 1..4 |-> read[j].status] = <<144, 128, 144, 128>>

====
